---- MODULE Spec2Model ----
(***************************************************************************)
(* Model of the speech-emotion service: the upload handler                 *)
(* (app/api.py), the chunk queue and its worker (app/queue_manager.py),    *)
(* the session tracker (app/session_manager.py) and the aggregator         *)
(* (app/aggregator.py, app/ser_result_logger.py).                          *)
(*                                                                         *)
(* Time is counted in ticks of 1/TicksPerSecond second.  A confidence c    *)
(* is the integer c * ConfScale; ConfScale is a multiple of 1..4, so the   *)
(* means of up to four confidences of the model are exact.                 *)
(***************************************************************************)
EXTENDS Integers, Sequences, FiniteSets, TLC

VARIABLES
    now,                 \* wall clock, in ticks
    next_file,           \* number of the next temp file (tempfile.NamedTemporaryFile)
    files,               \* temp files that exist on disk
    queue,               \* QueueManager.queue
    queue_items,         \* QueueManager._queue_items
    running,             \* QueueManager.running
    processing_item,     \* QueueManager._processing_item: the job shown as in progress, NoJob when none
    recent_results,      \* QueueManager._recent_results, newest first
    sessions,            \* SessionManager._sessions: user -> sequence of [id, results]
    session_metadata,    \* SessionManager._session_metadata: user -> sequence of [id, start_time, last_chunk_time]
    user_keys,           \* users that have a key in _sessions, in insertion order
    voice_emotion,       \* rows of the voice_emotion table
    aggregated_results,  \* ser_result_logger._aggregated_results
    aggregation_window,  \* Aggregator.aggregation_window, in seconds
    interval,            \* AggregationIntervalManager._interval, in seconds
    responses,           \* HTTP answers of analyze_speech
    processed,           \* history: the jobs _process_chunk has returned for, with the pipeline outcome
    add_log,             \* history: per user, the add_result calls [timestamp, session_id, prior]
    call,                \* function-level harness: the last direct call and its result
    worker_thread,       \* QueueManager.worker_thread: index into worker_threads, 0 for None
    worker_threads,      \* the worker loop threads ever started: [alive, job]
    lifecycle_log,       \* history: the start/stop calls [op, was_running, started, joined]
    agg_running,         \* Aggregator.running
    timer_thread,        \* Aggregator.timer_thread: index into agg_threads, 0 for None
    agg_threads,         \* the periodic loop threads ever started: [alive, wake]
    tick_log,            \* history: the ticks of the periodic loops
    generation_interval, \* GenerationIntervalManager._interval, in seconds
    interval_log,        \* history: the answers of the two interval setters
    demo_enabled,        \* DemoModeManager._enabled
    modality_states,     \* ModalityToggleManager._modality_states
    biases,              \* EmotionBiasManager._biases
    sim_user_id,         \* UserIdManager._user_id
    face_emotion,        \* rows of the face_emotion table
    bvs_emotion,         \* rows of the bvs_emotion table
    gen_log,             \* history: the ticks of auto_signal_generation_task
    generator_task,      \* main._auto_generation_task: "none", "running" or "cancelled"
    service_log,         \* history: the steps of startup_event and shutdown_event
    signals,             \* SignalStorage: per modality, the lines of its JSONL file
    requests,            \* history: the POST /ser/analyze-speech requests and their effects
    storage_log,         \* history: the write_signal and clear_signals calls
    tracker_log,         \* history: the direct cleanup_old_sessions and clear_user_sessions calls
    bias_log,            \* history: the POST /emotion-bias requests and their effects
    enqueuing,           \* the job an enqueue_chunk call has put but not yet tracked, NoJob when none
    predict_log,         \* history: the POST /simulation/{modality}/predict requests and their effects
    singleton,           \* a registry class before and after its first get_instance: [exists, has_flag, initialized, value, lock]
    callers,             \* the position of each thread in its first get_instance call
    singleton_log        \* history: the assignments of __init__ and of the setter, in order

workerVars == <<worker_thread, worker_threads, lifecycle_log>>

aggregatorVars == <<agg_running, timer_thread, agg_threads, tick_log>>

registryVars == <<generation_interval, interval_log>>

simulationVars == <<demo_enabled, modality_states, biases, sim_user_id,
                    face_emotion, bvs_emotion, gen_log>>

singletonVars == <<singleton, callers, singleton_log>>

callVars == <<tracker_log, bias_log, enqueuing, predict_log, singletonVars>>

serviceVars == <<generator_task, service_log, signals, requests, storage_log, callVars>>

vars == <<now, next_file, files, queue, queue_items, running, processing_item,
          recent_results, sessions, session_metadata, user_keys, voice_emotion,
          aggregated_results, aggregation_window, interval, responses, processed, add_log, call,
          workerVars, aggregatorVars, registryVars, simulationVars, serviceVars>>

----------------------------------------------------------------------------
(* Bounds of the model *)

MaxUploads == 3
MaxOtherUploads == 1
MaxAdds == 3

MaxCallers == 2
MaxChunks == 3
MaxAggregates == 1
BurstUploads == 1025
TicksPerSecond == 2
MaxTicks == 2
MaxSets == 1
MaxCalls == 3

(* Program constants *)

SESSION_GAP_THRESHOLD_SECONDS == 60
DEFAULT_INTERVAL == 300
max_recent_results == 100
AggregatedMaxLen == 1000
maxsize == 0
MIN_INTERVAL == 60
MAX_INTERVAL == 3600
MIN_GENERATION_INTERVAL == 5
MAX_GENERATION_INTERVAL == 300
join_timeout == 5
ConfScale == 12 * 100

Users == {"u1", "u2"}
OtherUsers == {"u2"}
None == "None"
NoneNum == 0 - 1
NoJob == [user_id |-> None, path |-> 0, timestamp |-> 0]

FourClass == {"Angry", "Sad", "Happy", "Fear"}

Conf(percent) == (percent * ConfScale) \div 100

Secs(s) == s * TicksPerSecond

(* the instants the clock of the model visits *)
Instants == {0, Secs(61), Secs(1100)}

----------------------------------------------------------------------------
(* Sequence helpers *)

RECURSIVE SeqSum(_)
SeqSum(s) == IF s = <<>> THEN 0 ELSE Head(s) + SeqSum(Tail(s))

Range(s) == {s[i] : i \in 1..Len(s)}

(* the keys of a dict built by inserting s[1], s[2], ... : first appearances, in order *)
RECURSIVE KeysInOrder(_)
KeysInOrder(s) ==
    IF s = <<>> THEN <<>>
    ELSE LET front == KeysInOrder(SubSeq(s, 1, Len(s) - 1))
             last  == s[Len(s)]
         IN IF last \in Range(front) THEN front ELSE Append(front, last)

(* Python's max(items, key=...) : the index of the first item with the greatest key *)
FirstMax(vals) ==
    CHOOSE i \in 1..Len(vals) :
        /\ \A j \in 1..Len(vals) : vals[j] <= vals[i]
        /\ \A j \in 1..(i - 1) : vals[j] < vals[i]

----------------------------------------------------------------------------
(* app/models.py *)

ChunkResultOptional(emotion) == TRUE

(* ChunkResult(...): pydantic validation of the required str field emotion;
   the field job is a history field naming the upload the result came from *)
ChunkResultValid(emotion) == emotion # None

ChunkResult(timestamp, out, job) ==
    [timestamp |-> timestamp, emotion |-> out.emotion,
     emotion_confidence |-> out.emotion_confidence,
     sentiment |-> out.sentiment, sentiment_confidence |-> out.sentiment_confidence,
     job |-> job]

----------------------------------------------------------------------------
(* app/session_manager.py *)

session_gap_threshold == Secs(SESSION_GAP_THRESHOLD_SECONDS)

(* f"{user_id}_{timestamp.strftime('%Y%m%d_%H%M%S')}": the timestamp cut to whole seconds *)
SessionId(user_id, timestamp) == <<user_id, timestamp \div TicksPerSecond>>

(* the loop of lines 115-122: the first session with the greatest last_chunk_time *)
MostRecent(meta) ==
    FirstMax([i \in 1..Len(meta) |-> meta[i].last_chunk_time])

GapExceedsOrEqual(gap) == gap >= session_gap_threshold

GapExceeds(gap) == gap > session_gap_threshold

detect_or_create_session(sess, meta, user_id, timestamp) ==
    IF sess = <<>> THEN SessionId(user_id, timestamp)
    ELSE IF meta = <<>> THEN SessionId(user_id, timestamp)
    ELSE LET m == meta[MostRecent(meta)]
         IN IF GapExceeds(timestamp - m.last_chunk_time)
            THEN SessionId(user_id, timestamp)
            ELSE m.id

IndexOfId(seq, id) == CHOOSE i \in 1..Len(seq) : seq[i].id = id

HasId(seq, id) == \E i \in 1..Len(seq) : seq[i].id = id

NewLastChunkTime(old, timestamp) == timestamp

PrependResult(results, result) == <<result>> \o results

(* self._sessions[user_id][session_id].append(result) *)
AppendResult(results, result) == Append(results, result)

(* add_result: the user's session list and metadata afterwards, and the id returned *)
add_result(sess, meta, user_id, result) ==
    LET session_id == detect_or_create_session(sess, meta, user_id, result.timestamp)
        sess1 == IF HasId(sess, session_id) THEN sess
                 ELSE Append(sess, [id |-> session_id, results |-> <<>>])
        meta1 == IF HasId(sess, session_id) THEN meta
                 ELSE Append(meta, [id |-> session_id, start_time |-> result.timestamp,
                                    last_chunk_time |-> result.timestamp])
        i == IndexOfId(sess1, session_id)
        k == IndexOfId(meta1, session_id)
    IN [sessions |-> [sess1 EXCEPT ![i].results = AppendResult(@, result)],
        metadata |-> [meta1 EXCEPT ![k].last_chunk_time = NewLastChunkTime(@, result.timestamp)],
        session_id |-> session_id]

(* defaultdict: reading self._sessions[user_id] creates the key *)
TouchKey(keys, user_id) == IF user_id \in Range(keys) THEN keys ELSE Append(keys, user_id)

InWindow(timestamp, window_start, window_end) ==
    window_start <= timestamp /\ timestamp <= window_end

AllOfUser(sess, window_start, window_end) == sess

(* get_active_sessions_in_window, for one user: the sessions with a result in the window *)
ActiveOfUser(sess, window_start, window_end) ==
    LET cut == [i \in 1..Len(sess) |->
                  [id |-> sess[i].id,
                   results |-> SelectSeq(sess[i].results,
                                 LAMBDA r : InWindow(r.timestamp, window_start, window_end))]]
    IN SelectSeq(cut, LAMBDA s : s.results # <<>>)

get_active_sessions_in_window(window_start, window_end) ==
    [u \in Users |-> IF u \in Range(user_keys)
                     THEN ActiveOfUser(sessions[u], window_start, window_end)
                     ELSE <<>>]

StaleOrEqual(m, before_timestamp) == m.last_chunk_time <= before_timestamp

(* cleanup_old_sessions: the ids that stay *)
Stale(m, before_timestamp) == m.last_chunk_time < before_timestamp

KeptIds(meta, before_timestamp) ==
    {meta[i].id : i \in {j \in 1..Len(meta) : ~Stale(meta[j], before_timestamp)}}

cleanup_sessions(sess, meta, before_timestamp) ==
    SelectSeq(sess, LAMBDA s : s.id \in KeptIds(meta, before_timestamp))

MetadataKept(meta, before_timestamp) == meta

cleanup_metadata(meta, before_timestamp) ==
    SelectSeq(meta, LAMBDA m : m.id \in KeptIds(meta, before_timestamp))

----------------------------------------------------------------------------
(* app/aggregator.py, app/ser_result_logger.py *)

Truthy(x) == x # None /\ x # ""

ConfsOf(results, label) ==
    LET hits == SelectSeq(results, LAMBDA r : r.emotion = label)
    IN [i \in 1..Len(hits) |-> hits[i].emotion_confidence]

SumOnly(confs) == SeqSum(confs)

(* sum(confs) / len(confs) *)
Mean(confs) == SeqSum(confs) \div Len(confs)

WorstEmotion(labels, avg) == labels[FirstMax([i \in 1..Len(labels) |-> 0 - avg[labels[i]]])]

(* max(emotion_avg_confidences.items(), key=lambda x: x[1]) *)
BestEmotion(labels, avg) == labels[FirstMax([i \in 1..Len(labels) |-> avg[labels[i]]])]

NoAggregate ==
    [timestamp |-> 0, user_id |-> None, session_id |-> <<None, 0>>,
     window_start |-> 0, window_end |-> 0, chunk_count |-> 0,
     emotion |-> None, emotion_confidence |-> 0,
     sentiment |-> None, sentiment_confidence |-> 0]

(* _aggregate_session; NoAggregate stands for the ValueError on an empty list *)
aggregate_session(user_id, session_id, chunk_results, window_start, window_end) ==
    IF chunk_results = <<>> THEN NoAggregate
    ELSE
    LET counted  == SelectSeq(chunk_results, LAMBDA r : r.emotion # None)
        labels   == KeysInOrder([i \in 1..Len(counted) |-> counted[i].emotion])
        avg      == [l \in Range(labels) |-> Mean(ConfsOf(counted, l))]
        withSent == SelectSeq(counted, LAMBDA r : Truthy(r.sentiment) /\ r.sentiment_confidence # NoneNum)
        sents    == KeysInOrder([i \in 1..Len(withSent) |-> withSent[i].sentiment])
        sconfs(x) == LET hits == SelectSeq(withSent, LAMBDA r : r.sentiment = x)
                     IN [i \in 1..Len(hits) |-> hits[i].sentiment_confidence]
        common   == sents[FirstMax([i \in 1..Len(sents) |-> Len(sconfs(sents[i]))])]
    IN [timestamp |-> window_end, user_id |-> user_id, session_id |-> session_id,
        window_start |-> window_start, window_end |-> window_end,
        chunk_count |-> Len(chunk_results),
        emotion |-> IF labels # <<>> THEN BestEmotion(labels, avg) ELSE "unknown",
        emotion_confidence |-> IF labels # <<>> THEN avg[BestEmotion(labels, avg)] ELSE 0,
        sentiment |-> IF sents # <<>> THEN common ELSE None,
        sentiment_confidence |-> IF sents # <<>> THEN Mean(sconfs(common)) ELSE NoneNum]

(* log_aggregated_result: append to deque(maxlen=1000) *)
RingAppend(ring, entry, cap) ==
    IF Len(ring) >= cap THEN Append(Tail(ring), entry) ELSE Append(ring, entry)

RECURSIVE RingAppendAll(_, _, _)
RingAppendAll(ring, entries, cap) ==
    IF entries = <<>> THEN ring
    ELSE RingAppendAll(RingAppend(ring, Head(entries), cap), Tail(entries), cap)

(* the aggregates of one tick: users in key order, sessions in dict order *)
RECURSIVE EmitAll(_, _, _, _)
EmitAll(keys, active, window_start, window_end) ==
    IF keys = <<>> THEN <<>>
    ELSE LET u == Head(keys)
             mine == [i \in 1..Len(active[u]) |->
                        aggregate_session(u, active[u][i].id, active[u][i].results,
                                          window_start, window_end)]
         IN mine \o EmitAll(Tail(keys), active, window_start, window_end)

----------------------------------------------------------------------------
(* The ML pipeline, app/processing_pipeline.py: what analyze_full can hand back *)

Output(emotion, conf, sentiment, sconf) ==
    [raised |-> FALSE, emotion |-> emotion, emotion_confidence |-> conf,
     sentiment |-> sentiment, sentiment_confidence |-> sconf]

(* an exception leaving analyze_full *)
Raised == [raised |-> TRUE, emotion |-> None, emotion_confidence |-> 0,
           sentiment |-> None, sentiment_confidence |-> 0]

(* lines 97-106: the result when validate_audio fails *)
ValidationFailed == Output("Error", 0, "N/A", 0)

(* predict_emotion returns one of the four labels or None (neutral/other/unknown) *)
analyze_full_outputs ==
    {Raised, ValidationFailed, Output(None, Conf(95), "N/A", 0),
     Output("Happy", Conf(60), "N/A", 0)}

----------------------------------------------------------------------------
(* app/queue_manager.py, app/api.py *)

EnqueueFailedStatus == 500

(* queue.Queue.put(block=False): Full only for a positive maxsize *)
QueueFull(q) == maxsize > 0 /\ Len(q) >= maxsize

Job(user_id, path, timestamp) == [user_id |-> user_id, path |-> path, timestamp |-> timestamp]

(* enqueue_chunk returns True iff nothing in its try block raised *)
enqueue_ok(q, put_raises) == ~put_raises /\ ~QueueFull(q)

(* an HTTP answer; job and enqueued are history fields: the temp file of the
   request (0 when none was made) and what enqueue_chunk returned *)
Response(job, user_id, enqueued, status, error, queue_size) ==
    [job |-> job, user_id |-> user_id, enqueued |-> enqueued, status |-> status,
     error |-> error, queue_size |-> queue_size]

(* POST /ser/analyze-speech.  valid: the outcome of the two input checks
   (lines 45-54); put_raises: an exception inside enqueue_chunk's try block *)
analyze_speech(user_id, valid, put_raises) ==
    IF ~valid
    THEN /\ responses' = responses \cup {Response(0, None, FALSE, 400, "invalid", NoneNum)}
         /\ UNCHANGED <<now, next_file, files, queue, queue_items, running, processing_item,
                        recent_results, sessions, session_metadata, user_keys, voice_emotion,
                        aggregated_results, aggregation_window, interval, processed,
                        add_log, call>>
         /\ UNCHANGED <<workerVars, aggregatorVars, registryVars, simulationVars,
                           generator_task, service_log, signals, storage_log, callVars>>
    ELSE LET path == next_file
             job  == Job(user_id, path, now)
         IN /\ next_file' = next_file + 1
            /\ IF enqueue_ok(queue, put_raises)
               THEN /\ queue' = Append(queue, job)
                    /\ queue_items' = Append(queue_items,
                                             [user_id |-> user_id, timestamp |-> now])
                    /\ files' = files \cup {path}
                    /\ responses' = responses \cup
                           {Response(path, user_id, TRUE, 200, "", Len(queue) + 1)}
               ELSE /\ UNCHANGED <<queue, queue_items>>
                    /\ files' = files \ {path}
                    /\ responses' = responses \cup
                           {Response(path, user_id, FALSE, EnqueueFailedStatus,
                                     "Failed to enqueue audio chunk for processing", NoneNum)}
            /\ UNCHANGED <<now, running, processing_item, recent_results, sessions,
                           session_metadata, user_keys, voice_emotion, aggregated_results,
                           aggregation_window, interval, processed, add_log, call>>
            /\ UNCHANGED <<workerVars, aggregatorVars, registryVars, simulationVars,
                           generator_task, service_log, signals, storage_log, callVars>>

(* a worker loop thread: alive until its loop ends, job is the item it holds *)
WorkerThread(alive, job) == [alive |-> alive, job |-> job]

LifecycleEntry(op, was_running, started, joined) ==
    [op |-> op, was_running |-> was_running, started |-> started, joined |-> joined]

start_worker_unguarded ==
    /\ running' = TRUE
    /\ worker_threads' = Append(worker_threads, WorkerThread(TRUE, NoJob))
    /\ worker_thread' = Len(worker_threads) + 1
    /\ lifecycle_log' = Append(lifecycle_log,
                               LifecycleEntry("start_worker", running, ~running, FALSE))
    /\ UNCHANGED <<now, next_file, files, queue, queue_items, processing_item,
                   recent_results, sessions, session_metadata, user_keys, voice_emotion,
                   aggregated_results, aggregation_window, interval, responses, processed,
                   add_log, call>>
    /\ UNCHANGED <<aggregatorVars, registryVars, simulationVars>>

(* start_worker: nothing when already running, else a new loop thread *)
start_worker ==
    /\ running' = TRUE
    /\ IF running
       THEN UNCHANGED <<worker_thread, worker_threads>>
       ELSE /\ worker_threads' = Append(worker_threads, WorkerThread(TRUE, NoJob))
            /\ worker_thread' = Len(worker_threads) + 1
    /\ lifecycle_log' = Append(lifecycle_log,
                               LifecycleEntry("start_worker", running, ~running, FALSE))
    /\ UNCHANGED <<now, next_file, files, queue, queue_items, processing_item,
                   recent_results, sessions, session_metadata, user_keys, voice_emotion,
                   aggregated_results, aggregation_window, interval, responses, processed,
                   add_log, call>>
    /\ UNCHANGED <<aggregatorVars, registryVars, simulationVars>>

(* _worker_loop, lines 148-177: take the next job *)
NextJob(q) == Head(q)

KeepQueue(q) == q

(* queue.get removes the job it returns *)
RestOfQueue(q) == Tail(q)

worker_loop_get(i) ==
    /\ worker_threads[i].alive
    /\ worker_threads[i].job = NoJob
    /\ running
    /\ queue # <<>>
    /\ LET job == NextJob(queue)
       IN /\ queue' = RestOfQueue(queue)
          /\ queue_items' = SelectSeq(queue_items,
                 LAMBDA item : ~(item.user_id = job.user_id /\ item.timestamp = job.timestamp))
          /\ processing_item' = job
          /\ worker_threads' = [worker_threads EXCEPT ![i].job = job]
    /\ UNCHANGED <<now, next_file, files, running, recent_results, sessions, session_metadata,
                   user_keys, voice_emotion, aggregated_results, aggregation_window,
                   interval, responses, processed, add_log, call>>
    /\ UNCHANGED <<worker_thread, lifecycle_log, aggregatorVars, registryVars, simulationVars, serviceVars>>

AlwaysHasResult(out) == TRUE

(* _process_chunk returns a result dict unless the pipeline or ChunkResult(...) raised *)
HasResult(out) == ~out.raised /\ ChunkResultValid(out.emotion)

FilesKept(fs, path) == fs

(* the finally block of _process_chunk *)
FilesAfterProcess(fs, path) == fs \ {path}

AddEntry(result, session_id, sess, meta) ==
    [timestamp |-> result.timestamp, session_id |-> session_id, job |-> result.job,
     had_sessions |-> sess # <<>>,
     recent_id |-> IF meta = <<>> THEN <<None, 0>> ELSE meta[MostRecent(meta)].id,
     recent_last |-> IF meta = <<>> THEN 0 ELSE meta[MostRecent(meta)].last_chunk_time]

(* lines 211-213: the display item is cleared when it shows the same user *)
ClearProcessingItem(item, user_id) ==
    IF item # NoJob /\ item.user_id = user_id THEN NoJob ELSE item

(* _worker_loop, lines 179-216, with _process_chunk *)
worker_loop_process(i, out) ==
    /\ worker_threads[i].alive
    /\ worker_threads[i].job # NoJob
    /\ LET job == worker_threads[i].job
           u == job.user_id
           chunk_result == ChunkResult(job.timestamp, out, job.path)
           added == add_result(sessions[u], session_metadata[u], u, chunk_result)
       IN /\ IF HasResult(out)
             THEN /\ sessions' = [sessions EXCEPT ![u] = added.sessions]
                  /\ session_metadata' = [session_metadata EXCEPT ![u] = added.metadata]
                  /\ user_keys' = TouchKey(user_keys, u)
                  /\ add_log' = [add_log EXCEPT ![u] =
                        Append(@, AddEntry(chunk_result, added.session_id,
                                           sessions[u], session_metadata[u]))]
                  /\ recent_results' =
                        SubSeq(<<[user_id |-> u, timestamp |-> job.timestamp,
                                  emotion |-> out.emotion,
                                  emotion_confidence |-> out.emotion_confidence,
                                  job |-> job.path]>> \o recent_results,
                               1, IF Len(recent_results) + 1 > max_recent_results
                                  THEN max_recent_results ELSE Len(recent_results) + 1)
             ELSE UNCHANGED <<sessions, session_metadata, user_keys, add_log, recent_results>>
          /\ files' = FilesAfterProcess(files, job.path)
          /\ processed' = Append(processed, [job |-> job.path, user_id |-> u,
                                                timestamp |-> job.timestamp, out |-> out])
          /\ processing_item' = ClearProcessingItem(processing_item, u)
    /\ worker_threads' = [worker_threads EXCEPT ![i].job = NoJob]
    /\ UNCHANGED <<now, next_file, queue, queue_items, running, voice_emotion,
                   aggregated_results, aggregation_window, interval, responses, call>>
    /\ UNCHANGED <<worker_thread, lifecycle_log, aggregatorVars, registryVars, simulationVars, serviceVars>>

(* run_aggregation, lines 132-134 *)
WindowStartDefault(window_end, window) == window_end - Secs(DEFAULT_INTERVAL)

WindowStart(window_end, window) == window_end - Secs(window)

ActiveAt(window_end, window) ==
    get_active_sessions_in_window(WindowStart(window_end, window), window_end)

(* lines 152-172: the aggregates one run emits *)
Emitted(window_end, window) ==
    EmitAll(user_keys, ActiveAt(window_end, window),
            WindowStart(window_end, window), window_end)

CleanupBefore(window_end, window) == window_end - 2 * Secs(window)

(* lines 179-182: cleanup_old_sessions for the users that were active in the window *)
SessionsAfter(window_end, window) ==
    [u \in Users |->
        IF ActiveAt(window_end, window)[u] # <<>>
        THEN cleanup_sessions(sessions[u], session_metadata[u],
                              CleanupBefore(window_end, window))
        ELSE sessions[u]]

MetadataAfter(window_end, window) ==
    [u \in Users |->
        IF ActiveAt(window_end, window)[u] # <<>>
        THEN cleanup_metadata(session_metadata[u], CleanupBefore(window_end, window))
        ELSE session_metadata[u]]

run_aggregation(window_end, window) ==
    /\ aggregated_results' =
           RingAppendAll(aggregated_results, Emitted(window_end, window), AggregatedMaxLen)
    /\ sessions' = SessionsAfter(window_end, window)
    /\ session_metadata' = MetadataAfter(window_end, window)

(* _periodic_loop, lines 113-118: update_interval, then run_aggregation *)
periodic_tick ==
    /\ Len(aggregated_results) < MaxAggregates
    /\ aggregation_window' = interval
    /\ run_aggregation(now, interval)
    /\ UNCHANGED <<now, next_file, files, queue, queue_items, running, processing_item,
                   recent_results, user_keys, voice_emotion, interval, responses,
                   processed, add_log, call>>
    /\ UNCHANGED <<workerVars, aggregatorVars, registryVars, simulationVars, serviceVars>>

advance_clock ==
    /\ \E t \in Instants : t > now /\ now' = t
    /\ UNCHANGED <<next_file, files, queue, queue_items, running, processing_item,
                   recent_results, sessions, session_metadata, user_keys, voice_emotion,
                   aggregated_results, aggregation_window, interval, responses, processed,
                   add_log, call>>
    /\ UNCHANGED <<workerVars, aggregatorVars, registryVars, simulationVars, serviceVars>>

----------------------------------------------------------------------------
NoCall == [op |-> "none", input |-> <<>>, done |-> FALSE, result |-> NoAggregate]

Modalities == <<"ser", "fer", "vitals">>

DEFAULT_GENERATION_INTERVAL == 30

DEFAULT_USER_ID == "u1"

(* the state of the lifecycle objects and registries after construction *)
InitControl ==
    /\ worker_thread = 0
    /\ worker_threads = <<>>
    /\ lifecycle_log = <<>>
    /\ agg_running = FALSE
    /\ timer_thread = 0
    /\ agg_threads = <<>>
    /\ tick_log = <<>>
    /\ generation_interval = DEFAULT_GENERATION_INTERVAL
    /\ interval_log = <<>>
    /\ demo_enabled = FALSE
    /\ modality_states = [m \in Range(Modalities) |-> TRUE]
    /\ biases = [m \in Range(Modalities) |-> None]
    /\ sim_user_id = DEFAULT_USER_ID
    /\ face_emotion = <<>>
    /\ bvs_emotion = <<>>
    /\ gen_log = <<>>
    /\ generator_task = "none"
    /\ service_log = <<>>
    /\ signals = [m \in {"ser", "fer", "vitals"} |-> <<>>]
    /\ requests = <<>>
    /\ storage_log = <<>>
    /\ tracker_log = <<>>
    /\ bias_log = <<>>
    /\ enqueuing = NoJob
    /\ predict_log = <<>>
    /\ singleton = [exists |-> FALSE, has_flag |-> FALSE, initialized |-> FALSE,
                    value |-> NoneNum, lock |-> 0]
    /\ callers = [t \in 1..MaxCallers |-> "call"]
    /\ singleton_log = <<>>

Init ==
    /\ now = 0
    /\ next_file = 1
    /\ files = {}
    /\ queue = <<>>
    /\ queue_items = <<>>
    /\ running = FALSE
    /\ processing_item = NoJob
    /\ recent_results = <<>>
    /\ sessions = [u \in Users |-> <<>>]
    /\ session_metadata = [u \in Users |-> <<>>]
    /\ user_keys = <<>>
    /\ voice_emotion = <<>>
    /\ aggregated_results = <<>>
    /\ aggregation_window = DEFAULT_INTERVAL
    /\ interval = DEFAULT_INTERVAL
    /\ responses = {}
    /\ processed = <<>>
    /\ add_log = [u \in Users |-> <<>>]
    /\ call = NoCall
    /\ InitControl

Upload ==
    /\ next_file <= MaxUploads
    /\ \E u \in Users, valid \in BOOLEAN, put_raises \in BOOLEAN :
           /\ u \in OtherUsers =>
                  Cardinality({r \in responses : r.user_id = u}) < MaxOtherUploads
           /\ analyze_speech(u, valid, put_raises)
           /\ UNCHANGED requests

(* startup_event: the one start_worker call of the service *)
Startup == ~running /\ start_worker /\ UNCHANGED serviceVars

Get == \E i \in 1..Len(worker_threads) : worker_loop_get(i)

Process ==
    \E i \in 1..Len(worker_threads) : \E out \in analyze_full_outputs :
        worker_loop_process(i, out)

Next ==
    \/ Upload
    \/ Startup
    \/ Get
    \/ Process
    \/ periodic_tick
    \/ advance_clock

Spec == Init /\ [][Next]_vars

----------------------------------------------------------------------------
(* A burst of uploads of one producer while the worker is not consuming *)

NextBurst ==
    /\ next_file <= BurstUploads
    /\ analyze_speech("u1", TRUE, FALSE)
    /\ UNCHANGED requests

SpecBurst == Init /\ [][NextBurst]_vars

----------------------------------------------------------------------------
(* SessionManager.add_result called directly, with timestamps in any order *)

SessTimes == {0, 1, Secs(60), Secs(60) + 1, Secs(150), Secs(200)}

AddsDone == SeqSum([i \in 1..Len(user_keys) |-> Len(add_log[user_keys[i]])])

add_result_call(user_id, timestamp) ==
    LET result == ChunkResult(timestamp, Output("Happy", Conf(60), "N/A", 0), AddsDone + 1)
        added == add_result(sessions[user_id], session_metadata[user_id], user_id, result)
    IN /\ sessions' = [sessions EXCEPT ![user_id] = added.sessions]
       /\ session_metadata' = [session_metadata EXCEPT ![user_id] = added.metadata]
       /\ user_keys' = TouchKey(user_keys, user_id)
       /\ add_log' = [add_log EXCEPT ![user_id] =
             Append(@, AddEntry(result, added.session_id,
                                sessions[user_id], session_metadata[user_id]))]
       /\ UNCHANGED <<now, next_file, files, queue, queue_items, running, processing_item,
                      recent_results, voice_emotion, aggregated_results, aggregation_window,
                      interval, responses, processed, call>>
       /\ UNCHANGED <<workerVars, aggregatorVars, registryVars, simulationVars, serviceVars>>

NextSession ==
    /\ AddsDone < MaxAdds
    /\ \E u \in Users, t \in SessTimes : add_result_call(u, t)

SpecSession == Init /\ [][NextSession]_vars

----------------------------------------------------------------------------
(* Aggregator._aggregate_session called directly on a list of ChunkResults *)

AggConfs == {Conf(60), Conf(80), Conf(95)}

AggElems ==
    {ChunkResult(0, Output(e, c, "N/A", 0), 0) : e \in FourClass \cup {"Error"}, c \in AggConfs}
      \cup {ChunkResult(0, Output("Happy", Conf(80), "positive", Conf(80)), 0),
            ChunkResult(0, Output("Sad", Conf(95), "negative", Conf(60)), 0)}

AggInputs == UNION {[1..n -> AggElems] : n \in 1..MaxChunks}

InitAgg ==
    /\ now = 0
    /\ next_file = 1
    /\ files = {}
    /\ queue = <<>>
    /\ queue_items = <<>>
    /\ running = FALSE
    /\ processing_item = NoJob
    /\ recent_results = <<>>
    /\ sessions = [u \in Users |-> <<>>]
    /\ session_metadata = [u \in Users |-> <<>>]
    /\ user_keys = <<>>
    /\ voice_emotion = <<>>
    /\ aggregated_results = <<>>
    /\ aggregation_window = DEFAULT_INTERVAL
    /\ interval = DEFAULT_INTERVAL
    /\ responses = {}
    /\ processed = <<>>
    /\ add_log = [u \in Users |-> <<>>]
    /\ call \in {[op |-> "_aggregate_session", input |-> l, done |-> FALSE,
                  result |-> NoAggregate] : l \in AggInputs}
    /\ InitControl

aggregate_session_call ==
    /\ ~call.done
    /\ call' = [call EXCEPT !.done = TRUE,
                            !.result = aggregate_session("u1", SessionId("u1", 0), call.input,
                                                         0, Secs(DEFAULT_INTERVAL))]
    /\ UNCHANGED <<now, next_file, files, queue, queue_items, running, processing_item,
                   recent_results, sessions, session_metadata, user_keys, voice_emotion,
                   aggregated_results, aggregation_window, interval, responses, processed,
                   add_log>>
    /\ UNCHANGED <<workerVars, aggregatorVars, registryVars, simulationVars, serviceVars>>

NextAgg == aggregate_session_call

SpecAgg == InitAgg /\ [][NextAgg]_vars

----------------------------------------------------------------------------
(* The interval registries: app/aggregation_interval.py,
   simulation/generation_interval.py and their HTTP handlers *)

IntervalEntry(manager, value, status, before, after) ==
    [manager |-> manager, value |-> value, status |-> status,
     before |-> before, after |-> after]

AnyInterval(value) == TRUE

(* AggregationIntervalManager.set_interval, line 75: no ValueError *)
IntervalAccepted(value) == ~(value < MIN_INTERVAL \/ value > MAX_INTERVAL)

(* GenerationIntervalManager.set_interval, line 75 *)
GenerationIntervalAccepted(value) ==
    ~(value < MIN_GENERATION_INTERVAL \/ value > MAX_GENERATION_INTERVAL)

(* POST /ser/api/aggregation-interval *)
set_aggregation_interval(value) ==
    /\ IF IntervalAccepted(value)
       THEN /\ interval' = value
            /\ interval_log' = Append(interval_log,
                   IntervalEntry("aggregation", value, 200, interval, value))
       ELSE /\ UNCHANGED interval
            /\ interval_log' = Append(interval_log,
                   IntervalEntry("aggregation", value, 400, interval, interval))
    /\ UNCHANGED <<now, next_file, files, queue, queue_items, running, processing_item,
                   recent_results, sessions, session_metadata, user_keys, voice_emotion,
                   aggregated_results, aggregation_window, responses, processed,
                   add_log, call>>
    /\ UNCHANGED <<workerVars, aggregatorVars, generation_interval, simulationVars, serviceVars>>

(* POST /simulation/generation-interval *)
set_generation_interval(value) ==
    /\ IF GenerationIntervalAccepted(value)
       THEN /\ generation_interval' = value
            /\ interval_log' = Append(interval_log,
                   IntervalEntry("generation", value, 200, generation_interval, value))
       ELSE /\ UNCHANGED generation_interval
            /\ interval_log' = Append(interval_log,
                   IntervalEntry("generation", value, 400,
                                 generation_interval, generation_interval))
    /\ UNCHANGED <<now, next_file, files, queue, queue_items, running, processing_item,
                   recent_results, sessions, session_metadata, user_keys, voice_emotion,
                   aggregated_results, aggregation_window, interval, responses, processed,
                   add_log, call>>
    /\ UNCHANGED <<workerVars, aggregatorVars, simulationVars, serviceVars>>

----------------------------------------------------------------------------
(* The aggregator's periodic loop, app/aggregator.py lines 59-125 *)

(* a periodic loop thread: alive until its loop ends, asleep until wake *)
AggThread(alive, wake) == [alive |-> alive, wake |-> wake]

(* start_periodic_aggregation; the new thread's first statements (lines 105-106)
   read the interval and go to sleep *)
start_periodic_aggregation ==
    /\ agg_running' = TRUE
    /\ IF agg_running
       THEN UNCHANGED <<timer_thread, agg_threads, aggregation_window>>
       ELSE /\ agg_threads' = Append(agg_threads, AggThread(TRUE, now + Secs(interval)))
            /\ timer_thread' = Len(agg_threads) + 1
            /\ aggregation_window' = interval
    /\ lifecycle_log' = Append(lifecycle_log,
           LifecycleEntry("start_periodic_aggregation", agg_running, ~agg_running, FALSE))
    /\ UNCHANGED <<now, next_file, files, queue, queue_items, running, processing_item,
                   recent_results, sessions, session_metadata, user_keys, voice_emotion,
                   aggregated_results, interval, responses, processed, add_log, call>>
    /\ UNCHANGED <<worker_thread, worker_threads, tick_log, registryVars, simulationVars, serviceVars>>

(* join(timeout=5.0) of a sleeping loop thread: it ends in time iff it wakes in time *)
TimerJoins == timer_thread # 0 /\ agg_threads[timer_thread].alive

TimerEndsInTime ==
    TimerJoins /\ agg_threads[timer_thread].wake - now <= Secs(join_timeout)

stop_periodic_aggregation ==
    /\ agg_running' = FALSE
    /\ IF ~agg_running
       THEN UNCHANGED <<timer_thread, agg_threads>>
       ELSE /\ timer_thread' = 0
            /\ agg_threads' = IF TimerEndsInTime
                               THEN [agg_threads EXCEPT ![timer_thread].alive = FALSE]
                               ELSE agg_threads
    /\ lifecycle_log' = Append(lifecycle_log,
           LifecycleEntry("stop_periodic_aggregation", agg_running, FALSE,
                          agg_running /\ TimerJoins))
    /\ UNCHANGED <<now, next_file, files, queue, queue_items, running, processing_item,
                   recent_results, sessions, session_metadata, user_keys, voice_emotion,
                   aggregated_results, aggregation_window, interval, responses, processed,
                   add_log, call>>
    /\ UNCHANGED <<worker_thread, worker_threads, tick_log, registryVars, simulationVars, serviceVars>>

(* what one tick did: the registry value it read, its window, the tracker
   before and after, and the aggregates it emitted *)
TickEntry(i, window) ==
    [thread |-> i, time |-> now, registry |-> window, sets_seen |-> Len(interval_log),
     window_start |-> WindowStart(now, window), window_end |-> now,
     sessions_before |-> sessions,
     metadata_after |-> MetadataAfter(now, window),
     emitted |-> Emitted(now, window)]

(* _periodic_loop, lines 108-123: one pass of thread i that finds running set *)
periodic_loop_tick(i) ==
    /\ agg_threads[i].alive
    /\ now >= agg_threads[i].wake
    /\ agg_running
    /\ aggregation_window' = interval
    /\ run_aggregation(now, interval)
    /\ agg_threads' = [agg_threads EXCEPT ![i].wake = now + Secs(interval)]
    /\ tick_log' = Append(tick_log, TickEntry(i, interval))
    /\ UNCHANGED <<now, next_file, files, queue, queue_items, running, processing_item,
                   recent_results, user_keys, voice_emotion, interval, responses,
                   processed, add_log, call>>
    /\ UNCHANGED <<workerVars, agg_running, timer_thread, registryVars, simulationVars, serviceVars>>

(* lines 109-111: thread i wakes and finds running cleared *)
periodic_loop_exit(i) ==
    /\ agg_threads[i].alive
    /\ now >= agg_threads[i].wake
    /\ ~agg_running
    /\ agg_threads' = [agg_threads EXCEPT ![i].alive = FALSE]
    /\ UNCHANGED <<now, next_file, files, queue, queue_items, running, processing_item,
                   recent_results, sessions, session_metadata, user_keys, voice_emotion,
                   aggregated_results, aggregation_window, interval, responses, processed,
                   add_log, call>>
    /\ UNCHANGED <<workerVars, agg_running, timer_thread, tick_log, registryVars,
                   simulationVars, serviceVars>>

(* the instants the clock visits while the aggregator runs *)
TickInstants == {0, Secs(300), Secs(360), Secs(420), Secs(600)}

TickIntervals == {60, 120}

clock_to(t) ==
    /\ t > now
    /\ now' = t
    /\ UNCHANGED <<next_file, files, queue, queue_items, running, processing_item,
                   recent_results, sessions, session_metadata, user_keys, voice_emotion,
                   aggregated_results, aggregation_window, interval, responses, processed,
                   add_log, call>>
    /\ UNCHANGED <<workerVars, aggregatorVars, registryVars, simulationVars, serviceVars>>

AddNow == AddsDone < MaxAdds /\ \E u \in Users : add_result_call(u, now)

SetAggregationInterval ==
    /\ Len(interval_log) < MaxSets
    /\ \E v \in TickIntervals : set_aggregation_interval(v)

StartAggregator == ~agg_running /\ start_periodic_aggregation

Tick == Len(tick_log) < MaxTicks /\ \E i \in 1..Len(agg_threads) : periodic_loop_tick(i)

TickClock == \E t \in TickInstants : clock_to(t)

NextTick ==
    \/ AddNow
    \/ SetAggregationInterval
    \/ StartAggregator
    \/ Tick
    \/ TickClock

SpecTick == Init /\ [][NextTick]_vars

----------------------------------------------------------------------------
(* The synthetic generator: auto_signal_generation_task (app/main.py),
   simulation/signal_generator.py and the insert functions of app/database.py *)

MaxGenTicks == 2
MaxGenUploads == 1
MaxToggles == 3

GenEmotions == {"Fear"}

GenConfidence == Conf(80)

(* the labels drawn in one pass, and the store being reachable or not during it *)
GenDraws == {[m \in {"ser", "fer", "vitals"} |-> e] : e \in GenEmotions}

GenStoreOutcomes == {[m \in {"ser", "fer", "vitals"} |-> b] : b \in BOOLEAN}

(* write_signals_locally: the table each modality is written to *)
TableOf(modality) ==
    CASE modality = "ser" -> "voice_emotion"
      [] modality = "fer" -> "face_emotion"
      [] modality = "vitals" -> "bvs_emotion"

(* write_signals_locally, lines 233-239: emotion_map of the ser branch *)
emotion_map(emotion_label) ==
    CASE emotion_label = "Happy" -> "hap"
      [] emotion_label = "Sad" -> "sad"
      [] emotion_label = "Angry" -> "ang"
      [] emotion_label = "Fear" -> "fea"

(* insert_voice_emotion: the data dict handed to the store; is_synthetic is not part of it *)
VoiceRow(user_id, timestamp, emotion_label) ==
    [user_id |-> user_id, timestamp |-> timestamp, duration_sec |-> 10,
     predicted_emotion |-> emotion_map(emotion_label),
     emotion_confidence |-> GenConfidence]

(* insert_face_emotion_synthetic / insert_vitals_emotion_synthetic: the data dict *)
SyntheticRow(user_id, timestamp, emotion_label) ==
    [user_id |-> user_id, timestamp |-> timestamp,
     predicted_emotion |-> emotion_label, emotion_confidence |-> GenConfidence,
     date |-> timestamp]

GeneratedIgnoringToggles == IF demo_enabled THEN Modalities ELSE <<>>

(* the modalities one pass of the task generates for, in the order of its for loop *)
Generated == SelectSeq(Modalities, LAMBDA m : demo_enabled /\ modality_states[m])

Writes(m, stored) == m \in Range(Generated) /\ stored[m]

RowCounts(v, f, b) == [voice_emotion |-> Len(v), face_emotion |-> Len(f), bvs_emotion |-> Len(b)]

GenEntry(inserts, before, after) ==
    [time |-> now, demo |-> demo_enabled, states |-> modality_states,
     inserts |-> inserts, rows_before |-> before, rows_after |-> after,
     queued |-> Len(queue), tracked |-> Len(user_keys),
     recent |-> Len(recent_results), aggregated |-> Len(aggregated_results)]

(* one pass of the while loop of auto_signal_generation_task, up to its sleep:
   emotion[m] is the label random.choices draws, stored[m] whether the store keeps the row *)
GenerationEffects(emotion, stored) ==
    /\ voice_emotion' =
          IF Writes("ser", stored)
          THEN Append(voice_emotion, VoiceRow(sim_user_id, now, emotion["ser"]))
          ELSE voice_emotion
    /\ face_emotion' =
          IF Writes("fer", stored)
          THEN Append(face_emotion, SyntheticRow(sim_user_id, now, emotion["fer"]))
          ELSE face_emotion
    /\ bvs_emotion' =
          IF Writes("vitals", stored)
          THEN Append(bvs_emotion, SyntheticRow(sim_user_id, now, emotion["vitals"]))
          ELSE bvs_emotion
    /\ gen_log' = Append(gen_log,
          GenEntry([k \in 1..Len(Generated) |-> TableOf(Generated[k])],
                   RowCounts(voice_emotion, face_emotion, bvs_emotion),
                   RowCounts(voice_emotion', face_emotion', bvs_emotion')))
    /\ UNCHANGED <<demo_enabled, modality_states, biases, sim_user_id>>

generator_tick_through_queue ==
    /\ \E emotion \in GenDraws, stored \in GenStoreOutcomes :
           GenerationEffects(emotion, stored)
    /\ queue' = IF Generated = <<>> THEN queue
                ELSE Append(queue, Job(sim_user_id, 0, now))
    /\ UNCHANGED <<now, next_file, files, queue_items, running, processing_item,
                   recent_results, sessions, session_metadata, user_keys,
                   aggregated_results, aggregation_window, interval, responses, processed,
                   add_log, call>>
    /\ UNCHANGED <<workerVars, aggregatorVars, registryVars, serviceVars>>

generator_tick ==
    /\ \E emotion \in GenDraws, stored \in GenStoreOutcomes :
           GenerationEffects(emotion, stored)
    /\ UNCHANGED <<now, next_file, files, queue, queue_items, running, processing_item,
                   recent_results, sessions, session_metadata, user_keys,
                   aggregated_results, aggregation_window, interval, responses, processed,
                   add_log, call>>
    /\ UNCHANGED <<workerVars, aggregatorVars, registryVars, serviceVars>>

(* DemoModeManager.set_enabled *)
set_demo_mode(enabled) ==
    /\ demo_enabled' = enabled
    /\ UNCHANGED <<now, next_file, files, queue, queue_items, running, processing_item,
                   recent_results, sessions, session_metadata, user_keys, voice_emotion,
                   aggregated_results, aggregation_window, interval, responses, processed,
                   add_log, call>>
    /\ UNCHANGED <<workerVars, aggregatorVars, registryVars, modality_states, biases,
                   sim_user_id, face_emotion, bvs_emotion, gen_log, serviceVars>>

(* ModalityToggleManager.set_enabled *)
set_modality_enabled(modality, enabled) ==
    /\ modality \in Range(Modalities)
    /\ modality_states' = [modality_states EXCEPT ![modality] = enabled]
    /\ UNCHANGED <<now, next_file, files, queue, queue_items, running, processing_item,
                   recent_results, sessions, session_metadata, user_keys, voice_emotion,
                   aggregated_results, aggregation_window, interval, responses, processed,
                   add_log, call>>
    /\ UNCHANGED <<workerVars, aggregatorVars, registryVars, demo_enabled, biases,
                   sim_user_id, face_emotion, bvs_emotion, gen_log, serviceVars>>

GenUpload ==
    /\ next_file <= MaxGenUploads
    /\ analyze_speech(DEFAULT_USER_ID, TRUE, FALSE)
    /\ UNCHANGED requests

GenProcess ==
    \E i \in 1..Len(worker_threads) : \E out \in {Output("Happy", Conf(60), None, NoneNum)} :
        worker_loop_process(i, out)

GenAggregate == aggregated_results = <<>> /\ periodic_tick

SetDemoMode == demo_enabled = FALSE /\ set_demo_mode(TRUE)

SetModality ==
    /\ Cardinality({m \in Range(Modalities) : ~modality_states[m]}) < MaxToggles
    /\ \E m \in Range(Modalities) : modality_states[m] /\ set_modality_enabled(m, FALSE)

GeneratorTick == Len(gen_log) < MaxGenTicks /\ generator_tick

NextGenerator ==
    \/ GenUpload
    \/ Startup
    \/ Get
    \/ GenProcess
    \/ GenAggregate
    \/ SetDemoMode
    \/ SetModality
    \/ GeneratorTick

SpecGenerator == Init /\ [][NextGenerator]_vars

----------------------------------------------------------------------------
(* The interval setters on their own, with values on both sides of each bound *)

MaxIntervalCalls == 3

IntervalValues == {MIN_INTERVAL - 1, MIN_INTERVAL, 120, MAX_INTERVAL, MAX_INTERVAL + 1}

GenerationValues ==
    {MIN_GENERATION_INTERVAL - 1, MIN_GENERATION_INTERVAL, 60,
     MAX_GENERATION_INTERVAL, MAX_GENERATION_INTERVAL + 1}

PostAggregationInterval ==
    /\ Len(interval_log) < MaxIntervalCalls
    /\ \E v \in IntervalValues : set_aggregation_interval(v)

PostGenerationInterval ==
    /\ Len(interval_log) < MaxIntervalCalls
    /\ \E v \in GenerationValues : set_generation_interval(v)

NextInterval ==
    \/ PostAggregationInterval
    \/ PostGenerationInterval

SpecInterval == Init /\ [][NextInterval]_vars

----------------------------------------------------------------------------
(* Starting and stopping the worker and the aggregator *)

(* join(timeout=5.0) is reached when worker_thread is set and its thread is alive *)
WorkerJoins == worker_thread # 0 /\ worker_threads[worker_thread].alive

(* an idle loop thread leaves queue.get(timeout=1.0) and sees running cleared within
   the join timeout; a thread inside _process_chunk that is still there after 5 s
   stays alive (the case where it finishes in time is the step order process, stop) *)
WorkerEndsInTime == WorkerJoins /\ worker_threads[worker_thread].job = NoJob

stop_worker ==
    /\ running' = FALSE
    /\ IF ~running
       THEN UNCHANGED <<worker_thread, worker_threads>>
       ELSE /\ worker_thread' = 0
            /\ worker_threads' = IF WorkerEndsInTime
                                  THEN [worker_threads EXCEPT ![worker_thread].alive = FALSE]
                                  ELSE worker_threads
    /\ lifecycle_log' = Append(lifecycle_log,
           LifecycleEntry("stop_worker", running, FALSE, running /\ WorkerJoins))
    /\ UNCHANGED <<now, next_file, files, queue, queue_items, processing_item,
                   recent_results, sessions, session_metadata, user_keys, voice_emotion,
                   aggregated_results, aggregation_window, interval, responses, processed,
                   add_log, call>>
    /\ UNCHANGED <<aggregatorVars, registryVars, simulationVars>>

(* _worker_loop, lines 148-150: thread i finds running cleared and leaves the loop *)
worker_loop_exit(i) ==
    /\ worker_threads[i].alive
    /\ worker_threads[i].job = NoJob
    /\ ~running
    /\ worker_threads' = [worker_threads EXCEPT ![i].alive = FALSE]
    /\ UNCHANGED <<now, next_file, files, queue, queue_items, running, processing_item,
                   recent_results, sessions, session_metadata, user_keys, voice_emotion,
                   aggregated_results, aggregation_window, interval, responses, processed,
                   add_log, call>>
    /\ UNCHANGED <<worker_thread, lifecycle_log, aggregatorVars, registryVars,
                   simulationVars, serviceVars>>

MaxLifeUploads == 2

LifeInstants == {Secs(DEFAULT_INTERVAL - join_timeout), Secs(DEFAULT_INTERVAL)}

LifeUpload ==
    /\ next_file <= MaxLifeUploads
    /\ analyze_speech(DEFAULT_USER_ID, TRUE, FALSE)
    /\ UNCHANGED requests

StartWorker == Len(lifecycle_log) < MaxCalls /\ start_worker /\ UNCHANGED serviceVars

StopWorker == Len(lifecycle_log) < MaxCalls /\ stop_worker /\ UNCHANGED serviceVars

LifeProcess ==
    \E i \in 1..Len(worker_threads) : \E out \in {Output("Happy", Conf(60), None, NoneNum)} :
        worker_loop_process(i, out)

WorkerExit == \E i \in 1..Len(worker_threads) : worker_loop_exit(i)

StartAggregation == Len(lifecycle_log) < MaxCalls /\ start_periodic_aggregation

StopAggregation == Len(lifecycle_log) < MaxCalls /\ stop_periodic_aggregation

LifeTick == Len(tick_log) < MaxTicks /\ \E i \in 1..Len(agg_threads) : periodic_loop_tick(i)

LoopExit == \E i \in 1..Len(agg_threads) : periodic_loop_exit(i)

LifeClock == \E t \in LifeInstants : clock_to(t)

NextLifecycle ==
    \/ LifeUpload
    \/ StartWorker
    \/ StopWorker
    \/ Get
    \/ LifeProcess
    \/ WorkerExit
    \/ StartAggregation
    \/ StopAggregation
    \/ LifeTick
    \/ LoopExit
    \/ LifeClock

SpecLifecycle == Init /\ [][NextLifecycle]_vars

----------------------------------------------------------------------------
(* The service events of app/main.py *)

ServiceEntry(event, steps) ==
    [event |-> event, steps |-> steps,
     worker_running |-> running', aggregator_running |-> agg_running',
     generator |-> generator_task', files_left |-> files', queue_left |-> queue']

(* startup_event: start_worker, then asyncio.create_task(auto_signal_generation_task());
   the aggregator is not touched *)
startup_event ==
    /\ start_worker
    /\ generator_task' = "running"
    /\ service_log' = Append(service_log,
           ServiceEntry("startup", <<"start_worker", "create_generator_task">>))
    /\ UNCHANGED <<signals, requests, storage_log, callVars>>

(* shutdown_event: cancel and await the generator task when there is one, then
   stop_worker; each step sits in its own try block.  await_raises: the awaited
   task ends with an exception other than CancelledError *)
shutdown_event(await_raises) ==
    /\ generator_task' = IF generator_task = "none" THEN "none" ELSE "cancelled"
    /\ stop_worker
    /\ service_log' = Append(service_log,
           ServiceEntry("shutdown",
               IF generator_task = "none" THEN <<"stop_worker">>
               ELSE IF await_raises THEN <<"cancel_generator_failed", "stop_worker">>
               ELSE <<"cancel_generator", "stop_worker">>))
    /\ UNCHANGED <<signals, requests, storage_log, callVars>>

StartupEvent == service_log = <<>> /\ startup_event

ShutdownEvent ==
    /\ service_log # <<>>
    /\ service_log[Len(service_log)].event = "startup"
    /\ \E await_raises \in BOOLEAN : shutdown_event(await_raises)

(* one pass of the generator task, while it exists *)
GeneratorPass == generator_task = "running" /\ GeneratorTick

NextService ==
    \/ LifeUpload
    \/ StartupEvent
    \/ Get
    \/ LifeProcess
    \/ WorkerExit
    \/ SetDemoMode
    \/ GeneratorPass
    \/ ShutdownEvent

SpecService == Init /\ [][NextService]_vars

----------------------------------------------------------------------------
(* The input checks of POST /ser/analyze-speech, app/api.py lines 44-54 *)

MaxRequests == 2

AlwaysParses(user_id) == TRUE

(* uuid.UUID(user_id) returns: the ids of Users stand for strings it accepts *)
UuidParses(user_id) == user_id \in Users

Wav == <<".", "w", "a", "v">>

(* str.endswith *)
EndsWith(name, suffix) ==
    /\ Len(name) >= Len(suffix)
    /\ SubSeq(name, Len(name) - Len(suffix) + 1, Len(name)) = suffix

(* the user ids and the file names, character by character, of the requests *)
RequestUserIds == {"u1", "not-a-uuid"}

RequestFilenames ==
    {<<"a">> \o Wav, <<"a", ".", "W", "A", "V">>, <<"a">> \o Wav \o <<"x">>, <<>>}

RequestEntry(user_id, filename) ==
    [user_id |-> user_id, filename |-> filename,
     answers |-> responses' \ responses, answered |-> responses',
     files_before |-> files, files_after |-> files',
     queue_before |-> queue, queue_after |-> queue',
     items_before |-> queue_items, items_after |-> queue_items',
     path_before |-> next_file, path_after |-> next_file']

post_analyze_speech(user_id, filename, put_raises) ==
    /\ analyze_speech(user_id, UuidParses(user_id) /\ EndsWith(filename, Wav), put_raises)
    /\ requests' = Append(requests, RequestEntry(user_id, filename))

PostAnalyzeSpeech ==
    /\ Len(requests) < MaxRequests
    /\ \E user_id \in RequestUserIds, filename \in RequestFilenames, put_raises \in BOOLEAN :
           post_analyze_speech(user_id, filename, put_raises)

NextUpload ==
    \/ PostAnalyzeSpeech
    \/ Startup
    \/ Get
    \/ LifeProcess

SpecUpload == Init /\ [][NextUpload]_vars

----------------------------------------------------------------------------
(* simulation/signal_storage.py: one JSONL file per modality *)

MaxStorageCalls == 4

(* str.lower on the modality names the callers pass *)
Lower(modality) ==
    CASE modality = "SER" -> "ser"
      [] modality = "Vitals" -> "vitals"
      [] OTHER -> modality

(* _get_file_path raises ValueError for a name that is not a key of _file_paths *)
KnownModality(modality) == Lower(modality) \in {"ser", "fer", "vitals"}

(* json.dumps(signal.dict()) + "\n": one line, never blank *)
SignalLine(signal) == <<signal>>

BlankLine == <<>>

StorageEntry(op, modality, signal, ok) ==
    [op |-> op, modality |-> modality, signal |-> signal, ok |-> ok]

storageFrame ==
    <<now, next_file, files, queue, queue_items, running, processing_item,
      recent_results, sessions, session_metadata, user_keys, voice_emotion,
      aggregated_results, aggregation_window, interval, responses, processed, add_log, call,
      workerVars, aggregatorVars, registryVars, simulationVars,
      generator_task, service_log, requests, callVars>>

(* write_signal; write_raises: open or write failed before the line reached the file *)
write_signal(modality, signal, write_raises) ==
    /\ IF KnownModality(modality) /\ ~write_raises
       THEN signals' = [signals EXCEPT ![Lower(modality)] = Append(@, SignalLine(signal))]
       ELSE UNCHANGED signals
    /\ storage_log' = Append(storage_log,
           StorageEntry("write_signal", modality, signal,
                        KnownModality(modality) /\ ~write_raises))
    /\ UNCHANGED storageFrame

clear_every_file(modality) ==
    /\ signals' = [m \in DOMAIN signals |-> <<>>]
    /\ storage_log' = Append(storage_log,
           StorageEntry("clear_signals", modality, None, KnownModality(modality)))
    /\ UNCHANGED storageFrame

(* clear_signals: file_path.write_text("") *)
clear_signals(modality) ==
    /\ IF KnownModality(modality)
       THEN signals' = [signals EXCEPT ![Lower(modality)] = <<>>]
       ELSE UNCHANGED signals
    /\ storage_log' = Append(storage_log,
           StorageEntry("clear_signals", modality, None, KnownModality(modality)))
    /\ UNCHANGED storageFrame

(* get_signal_count: the lines of the file that are not blank *)
get_signal_count(modality) ==
    Len(SelectSeq(signals[Lower(modality)], LAMBDA line : line # BlankLine))

StorageModalities == {"ser", "fer", "vitals", "SER", "audio"}

(* the signal of a call: told apart from the earlier ones by its timestamp *)
StorageSignals == {[user_id |-> "u1", timestamp |-> Len(storage_log)]}

WriteSignal ==
    /\ Len(storage_log) < MaxStorageCalls
    /\ \E modality \in StorageModalities, signal \in StorageSignals, write_raises \in BOOLEAN :
           write_signal(modality, signal, write_raises)

ClearSignals ==
    /\ Len(storage_log) < MaxStorageCalls
    /\ \E modality \in StorageModalities : clear_signals(modality)

NextStorage ==
    \/ WriteSignal
    \/ ClearSignals

SpecStorage == Init /\ [][NextStorage]_vars

----------------------------------------------------------------------------
(* The worker's recent-results list filled past its length: one user, one chunk
   at a time *)

MaxRingUploads == 101

RingUpload ==
    /\ next_file <= MaxRingUploads
    /\ queue = <<>>
    /\ processing_item = NoJob
    /\ analyze_speech(DEFAULT_USER_ID, TRUE, FALSE)
    /\ UNCHANGED requests

NextRing ==
    \/ RingUpload
    \/ Startup
    \/ Get
    \/ LifeProcess

SpecRing == Init /\ [][NextRing]_vars

----------------------------------------------------------------------------
(* The worker loop as a thread that keeps running: its steps are taken whenever
   they stay possible *)

MaxFairUploads == 3

FairUpload ==
    /\ next_file <= MaxFairUploads
    /\ analyze_speech(DEFAULT_USER_ID, TRUE, FALSE)
    /\ UNCHANGED requests

FairOutputs == {Raised, Output("Happy", Conf(60), "N/A", 0)}

FairProcess ==
    \E i \in 1..Len(worker_threads) : \E out \in FairOutputs : worker_loop_process(i, out)

NextFair ==
    \/ FairUpload
    \/ Startup
    \/ Get
    \/ FairProcess

SpecFair == Init /\ [][NextFair]_vars /\ WF_vars(Get) /\ WF_vars(FairProcess)

----------------------------------------------------------------------------
(* SessionManager.cleanup_old_sessions and clear_user_sessions called directly *)

MaxTrackerAdds == 3

MaxTrackerCalls == 2

TrackerTimes == {0, Secs(60), Secs(200)}

CleanupTimes == {Secs(60), Secs(200)}

(* the first user adds at any of the times, the second at one *)
TrackerAddInputs == ({"u1"} \X TrackerTimes) \cup {<<"u2", 0>>}

TrackerAdds ==
    Cardinality({c \in Users \X (1..MaxTrackerAdds) : c[2] <= Len(add_log[c[1]])})

DropKey(keys, user_id) == SelectSeq(keys, LAMBDA k : k # user_id)

TrackerEntry(op, user_id, before_timestamp) ==
    [op |-> op, user_id |-> user_id, before_timestamp |-> before_timestamp,
     had_key |-> user_id \in Range(user_keys),
     sessions_before |-> sessions, metadata_before |-> session_metadata,
     sessions_after |-> sessions', metadata_after |-> session_metadata']

trackerFrame ==
    <<now, next_file, files, queue, queue_items, running, processing_item,
      recent_results, voice_emotion, aggregated_results, aggregation_window, interval,
      responses, processed, add_log, call,
      workerVars, aggregatorVars, registryVars, simulationVars,
      generator_task, service_log, signals, requests, storage_log, bias_log, enqueuing,
      predict_log, singletonVars>>

(* cleanup_old_sessions, lines 209-236: nothing for a user without a key *)
cleanup_old_sessions(user_id, before_timestamp) ==
    /\ IF user_id \in Range(user_keys)
       THEN /\ sessions' = [sessions EXCEPT ![user_id] =
                   cleanup_sessions(@, session_metadata[user_id], before_timestamp)]
            /\ session_metadata' = [session_metadata EXCEPT ![user_id] =
                   cleanup_metadata(@, before_timestamp)]
       ELSE UNCHANGED <<sessions, session_metadata>>
    /\ tracker_log' =
           Append(tracker_log, TrackerEntry("cleanup_old_sessions", user_id, before_timestamp))
    /\ UNCHANGED user_keys
    /\ UNCHANGED trackerFrame

(* clear_user_sessions, lines 280-294: the user's keys are deleted from both maps *)
clear_user_sessions(user_id) ==
    /\ IF user_id \in Range(user_keys)
       THEN /\ sessions' = [sessions EXCEPT ![user_id] = <<>>]
            /\ session_metadata' = [session_metadata EXCEPT ![user_id] = <<>>]
            /\ user_keys' = DropKey(user_keys, user_id)
       ELSE UNCHANGED <<sessions, session_metadata, user_keys>>
    /\ tracker_log' = Append(tracker_log, TrackerEntry("clear_user_sessions", user_id, 0))
    /\ UNCHANGED trackerFrame

TrackerAdd ==
    /\ TrackerAdds < MaxTrackerAdds
    /\ \E c \in TrackerAddInputs : add_result_call(c[1], c[2])

CleanupOldSessions ==
    /\ Len(tracker_log) < MaxTrackerCalls
    /\ \E u \in Users, t \in CleanupTimes : cleanup_old_sessions(u, t)

ClearUserSessions ==
    /\ Len(tracker_log) < MaxTrackerCalls
    /\ \E u \in Users : clear_user_sessions(u)

NextTracker ==
    \/ TrackerAdd
    \/ CleanupOldSessions
    \/ ClearUserSessions

SpecTracker == Init /\ [][NextTracker]_vars

----------------------------------------------------------------------------
(* simulation/emotion_bias.py, simulation/api.py: POST /emotion-bias *)

MaxBiasCalls == 2

VALID_EMOTIONS == {"Happy", "Sad", "Fear", "Angry"}

AnyEmotion(emotion) == TRUE

(* lines 88-89: None clears the bias, any other value must be one of the four labels *)
EmotionValid(emotion) == emotion = None \/ emotion \in VALID_EMOTIONS

(* lines 81-85: the modality name is lower-cased and then checked *)
BiasAccepted(modality, emotion) ==
    Lower(modality) \in {"ser", "fer", "vitals"} /\ EmotionValid(emotion)

BiasEntry(modality, emotion) ==
    [modality |-> modality, emotion |-> emotion,
     status |-> IF BiasAccepted(modality, emotion) THEN 200 ELSE 400,
     before |-> biases, after |-> biases']

(* set_emotion_bias with set_bias: ValueError is answered 400 and nothing is stored *)
set_bias(modality, emotion) ==
    /\ biases' = IF BiasAccepted(modality, emotion)
                 THEN [biases EXCEPT ![Lower(modality)] = emotion]
                 ELSE biases
    /\ bias_log' = Append(bias_log, BiasEntry(modality, emotion))
    /\ UNCHANGED <<now, next_file, files, queue, queue_items, running, processing_item,
                   recent_results, sessions, session_metadata, user_keys, voice_emotion,
                   aggregated_results, aggregation_window, interval, responses, processed,
                   add_log, call>>
    /\ UNCHANGED <<workerVars, aggregatorVars, registryVars, demo_enabled, modality_states,
                   sim_user_id, face_emotion, bvs_emotion, gen_log, generator_task,
                   service_log, signals, requests, storage_log, tracker_log, enqueuing,
                   predict_log, singletonVars>>

BiasModalities == {"ser", "fer", "vitals", "SER", "audio"}

BiasEmotions == VALID_EMOTIONS \cup {None, "happy", "Neutral"}

SetBias ==
    /\ Len(bias_log) < MaxBiasCalls
    /\ \E modality \in BiasModalities, emotion \in BiasEmotions : set_bias(modality, emotion)

NextBias == SetBias

SpecBias == Init /\ [][NextBias]_vars

----------------------------------------------------------------------------
(* QueueManager.enqueue_chunk in its two steps, next to the worker loop *)

MaxEnqueues == 3

QueueItem(job) == [user_id |-> job.user_id, timestamp |-> job.timestamp]

enqueueFrame ==
    <<running, processing_item, recent_results, sessions, session_metadata, user_keys,
      voice_emotion, aggregated_results, aggregation_window, interval, processed, add_log,
      call, workerVars, aggregatorVars, registryVars, simulationVars,
      generator_task, service_log, signals, requests, storage_log, tracker_log, bias_log,
      predict_log, singletonVars>>

(* analyze_speech up to line 122 of enqueue_chunk: the temp file is written, the
   timestamp is read from the clock and the job is put on the queue *)
enqueue_chunk_put(user_id) ==
    /\ enqueuing = NoJob
    /\ LET job == Job(user_id, next_file, now)
       IN /\ queue' = Append(queue, job)
          /\ files' = files \cup {job.path}
          /\ enqueuing' = job
    /\ next_file' = next_file + 1
    /\ now' = now + 1
    /\ UNCHANGED <<queue_items, responses>>
    /\ UNCHANGED enqueueFrame

(* lines 124-138: the tracking entry is appended under _queue_lock, then the
   handler answers *)
enqueue_chunk_track ==
    /\ enqueuing # NoJob
    /\ queue_items' = Append(queue_items, QueueItem(enqueuing))
    /\ responses' = responses \cup
           {Response(enqueuing.path, enqueuing.user_id, TRUE, 200, "", Len(queue))}
    /\ enqueuing' = NoJob
    /\ UNCHANGED <<now, next_file, files, queue>>
    /\ UNCHANGED enqueueFrame

EnqueuePut == next_file <= MaxEnqueues /\ \E u \in Users : enqueue_chunk_put(u)

EnqueueTrack == enqueuing # NoJob /\ enqueue_chunk_track

NextEnqueue ==
    \/ EnqueuePut
    \/ EnqueueTrack
    \/ Startup
    \/ Get
    \/ LifeProcess

SpecEnqueue == Init /\ [][NextEnqueue]_vars

----------------------------------------------------------------------------
(* simulation/api.py: POST /simulation/{modality}/predict and /inject-signals *)

MaxInjects == 2

MaxPredicts == 1

(* read_signals_in_window: the signals of the user with start_time <= timestamp <= end_time *)
read_signals_in_window(modality, user_id, start_time, end_time) ==
    LET parsed == [k \in 1..Len(signals[modality]) |-> signals[modality][k][1]]
    IN SelectSeq(parsed, LAMBDA signal :
           /\ signal.user_id = user_id
           /\ start_time <= signal.timestamp /\ signal.timestamp <= end_time)

PredictEntry(modality, user_id, window_start, window_end, clear, returned) ==
    [modality |-> modality, user_id |-> user_id, window_start |-> window_start,
     window_end |-> window_end, clear |-> clear, returned |-> returned,
     before |-> signals, after |-> signals']

(* predict_ser, lines 47-98: read the window, then clear_signals(modality) when
   clear is set and something was read; the handler has no await between the two *)
predict(modality, user_id, snapshot_timestamp, window_seconds, clear) ==
    LET window_start == snapshot_timestamp - window_seconds
        window_end == snapshot_timestamp
        returned == read_signals_in_window(modality, user_id, window_start, window_end)
    IN /\ signals' = IF clear /\ returned # <<>>
                     THEN [signals EXCEPT ![modality] = <<>>]
                     ELSE signals
       /\ predict_log' = Append(predict_log,
              PredictEntry(modality, user_id, window_start, window_end, clear, returned))
       /\ UNCHANGED <<now, next_file, files, queue, queue_items, running, processing_item,
                      recent_results, sessions, session_metadata, user_keys, voice_emotion,
                      aggregated_results, aggregation_window, interval, responses,
                      processed, add_log, call>>
       /\ UNCHANGED <<workerVars, aggregatorVars, registryVars, simulationVars,
                      generator_task, service_log, requests, storage_log, tracker_log,
                      bias_log, enqueuing, singletonVars>>

InjectTimes == {0, 10}

(* inject_signals with one signal *)
InjectSignals ==
    /\ Len(storage_log) < MaxInjects
    /\ \E modality \in {"ser", "fer"}, u \in Users, t \in InjectTimes :
           write_signal(modality, [user_id |-> u, timestamp |-> t], FALSE)

Predict ==
    /\ Len(predict_log) < MaxPredicts
    /\ \E modality \in {"ser", "fer"}, u \in Users, clear \in BOOLEAN :
           predict(modality, u, 10, 5, clear)

NextPredict ==
    \/ InjectSignals
    \/ Predict

SpecPredict == Init /\ [][NextPredict]_vars

----------------------------------------------------------------------------
(* app/aggregation_interval.py, simulation/demo_mode.py, simulation/user_id.py:
   the first get_instance calls of a registry class, statement by statement *)

MaxRegistrySets == 1

singletonFrame ==
    <<now, next_file, files, queue, queue_items, running, processing_item,
      recent_results, sessions, session_metadata, user_keys, voice_emotion,
      aggregated_results, aggregation_window, interval, responses, processed, add_log, call,
      workerVars, aggregatorVars, registryVars, simulationVars,
      generator_task, service_log, signals, requests, storage_log,
      tracker_log, bias_log, enqueuing, predict_log>>

SingletonEntry(op, t) ==
    [op |-> op, thread |-> t, value |-> singleton'.value, lock |-> singleton'.lock]

(* aggregation_interval.py __new__, lines 33-36: the unlocked test, and for the thread that finds None the
   locked test and the assignment of cls._instance *)
new_instance(t) ==
    /\ callers[t] = "call"
    /\ IF singleton.exists
       THEN /\ callers' = [callers EXCEPT ![t] = "init"]
            /\ UNCHANGED singleton
       ELSE /\ callers' = [callers EXCEPT ![t] = "created"]
            /\ singleton' = [singleton EXCEPT !.exists = TRUE]
    /\ UNCHANGED singleton_log
    /\ UNCHANGED singletonFrame

(* __new__, line 37: cls._instance._initialized = False, then the lock is released *)
new_flag(t) ==
    /\ callers[t] = "created"
    /\ singleton' = [singleton EXCEPT !.has_flag = TRUE, !.initialized = FALSE]
    /\ callers' = [callers EXCEPT ![t] = "init"]
    /\ UNCHANGED singleton_log
    /\ UNCHANGED singletonFrame

(* __init__, lines 42-43: reading the flag raises AttributeError before line 37 ran *)
init_test(t) ==
    /\ callers[t] = "init"
    /\ callers' = [callers EXCEPT ![t] =
           IF ~singleton.has_flag THEN "raised"
           ELSE IF singleton.initialized THEN "done"
           ELSE "init_value"]
    /\ UNCHANGED <<singleton, singleton_log>>
    /\ UNCHANGED singletonFrame

(* __init__, line 45: self._interval = DEFAULT_INTERVAL *)
init_value(t) ==
    /\ callers[t] = "init_value"
    /\ singleton' = [singleton EXCEPT !.value = DEFAULT_INTERVAL]
    /\ callers' = [callers EXCEPT ![t] = "init_lock"]
    /\ singleton_log' = Append(singleton_log, SingletonEntry("init_value", t))
    /\ UNCHANGED singletonFrame

(* __init__, line 46: self._lock = threading.Lock() *)
init_lock(t) ==
    /\ callers[t] = "init_lock"
    /\ singleton' = [singleton EXCEPT !.lock = @ + 1]
    /\ callers' = [callers EXCEPT ![t] = "init_flag"]
    /\ singleton_log' = Append(singleton_log, SingletonEntry("init_lock", t))
    /\ UNCHANGED singletonFrame

(* __init__, line 47: self._initialized = True *)
init_flag(t) ==
    /\ callers[t] = "init_flag"
    /\ singleton' = [singleton EXCEPT !.initialized = TRUE]
    /\ callers' = [callers EXCEPT ![t] = "done"]
    /\ UNCHANGED singleton_log
    /\ UNCHANGED singletonFrame

(* set_interval of a thread that holds the instance: the value is stored under self._lock *)
set_value(t, value) ==
    /\ callers[t] = "done"
    /\ singleton' = [singleton EXCEPT !.value = value]
    /\ singleton_log' = Append(singleton_log, SingletonEntry("set", t))
    /\ UNCHANGED callers
    /\ UNCHANGED singletonFrame

NewInstance == \E t \in 1..MaxCallers : new_instance(t)

NewFlag == \E t \in 1..MaxCallers : new_flag(t)

InitTest == \E t \in 1..MaxCallers : init_test(t)

InitValue == \E t \in 1..MaxCallers : init_value(t)

InitLock == \E t \in 1..MaxCallers : init_lock(t)

InitFlag == \E t \in 1..MaxCallers : init_flag(t)

SetValue ==
    /\ Cardinality({n \in 1..Len(singleton_log) : singleton_log[n].op = "set"}) < MaxRegistrySets
    /\ \E t \in 1..MaxCallers : \E value \in {60, 120} : set_value(t, value)

NextSingleton ==
    \/ NewInstance
    \/ NewFlag
    \/ InitTest
    \/ InitValue
    \/ InitLock
    \/ InitFlag
    \/ SetValue

SpecSingleton == Init /\ [][NextSingleton]_vars

----------------------------------------------------------------------------
(* Properties *)

Abs(x) == IF x < 0 THEN 0 - x ELSE x

(* the upload numbers of the results a user's sessions hold, sessions in dict order *)
RECURSIVE JobsOf(_)
JobsOf(sess) ==
    IF sess = <<>> THEN <<>>
    ELSE [i \in 1..Len(Head(sess).results) |-> Head(sess).results[i].job] \o JobsOf(Tail(sess))

TrackedJobs == UNION {Range(JobsOf(sessions[u])) : u \in Users}

LoggedJobs == UNION {{add_log[u][i].job : i \in 1..Len(add_log[u])} : u \in Users}

RecentJobs == {recent_results[i].job : i \in 1..Len(recent_results)}

RowsFor(user_id, timestamp) ==
    {i \in 1..Len(voice_emotion) :
        voice_emotion[i].user_id = user_id /\ voice_emotion[i].timestamp = timestamp}

(* C1: the queue never holds more jobs than the documented capacity, 1024, and no
   upload is accepted (200, with the queue size it reports) beyond it *)
C1_QueueBounded ==
    /\ Len(queue) <= 1024
    /\ \A r \in responses : r.status = 200 => r.queue_size <= 1024

(* C2: an upload whose enqueue_chunk call failed is answered 503 with the
   enqueue error, its temp file is gone, and nothing is ever produced for it *)
C2_EnqueueFailureAnswer ==
    \A r \in responses :
        (r.job > 0 /\ ~r.enqueued) =>
            /\ r.status = 503
            /\ r.error = "Failed to enqueue audio chunk for processing"
            /\ r.job \notin files
            /\ r.job \notin LoggedJobs \cup RecentJobs
            /\ \A i \in 1..Len(processed) : processed[i].job # r.job

(* C3: once _process_chunk has returned for a job its temp file is gone,
   whatever the pipeline did, and the file of every job still waiting in the
   queue exists *)
C3_TempFileOwnership ==
    /\ \A i \in 1..Len(processed) : processed[i].job \notin files
    /\ \A i \in 1..Len(queue) : queue[i].path \in files

C3_Witness ==
    /\ \E i \in 1..Len(processed) : processed[i].out.raised
    /\ \E i \in 1..Len(processed) :
           ~processed[i].out.raised /\ processed[i].out.emotion = None
    /\ \E i \in 1..Len(processed) : processed[i].out.emotion \in FourClass

(* C4: a chunk whose pipeline output has a null emotion leaves no row in the
   speech table, no entry in the session tracker, no entry in the
   recent-results list, and its temp file is removed *)
C4_NeutralDrop ==
    \A i \in 1..Len(processed) :
        (~processed[i].out.raised /\ processed[i].out.emotion = None) =>
            /\ processed[i].job \notin files
            /\ processed[i].job \notin TrackedJobs \cup LoggedJobs
            /\ processed[i].job \notin RecentJobs
            /\ RowsFor(processed[i].user_id, processed[i].timestamp) = {}

C4_Witness ==
    \E i \in 1..Len(processed) :
        /\ ~processed[i].out.raised /\ processed[i].out.emotion = None
        /\ \E j \in 1..Len(processed) :
               processed[j].user_id = processed[i].user_id /\ processed[j].job \in TrackedJobs

(* C5: every ChunkResult the session tracker holds and every aggregate in the
   aggregated ring has one of the four emotions *)
C5_EmotionEnumIntegrity ==
    /\ \A u \in Users : \A i \in 1..Len(sessions[u]) :
           \A k \in 1..Len(sessions[u][i].results) :
               sessions[u][i].results[k].emotion \in FourClass
    /\ \A i \in 1..Len(aggregated_results) : aggregated_results[i].emotion \in FourClass

(* C6, as stated: a result shares the session of the user's previously added
   result iff the absolute difference of their timestamps is within the gap *)
C6_SessionGapAbsolute ==
    \A u \in Users : \A i \in 1..(Len(add_log[u]) - 1) :
        (add_log[u][i + 1].session_id = add_log[u][i].session_id)
            <=> (Abs(add_log[u][i + 1].timestamp - add_log[u][i].timestamp)
                    <= session_gap_threshold)

NonDecreasingUpTo(log, n) ==
    \A i \in 1..(n - 1) : log[i].timestamp <= log[i + 1].timestamp

(* C6, amended: a result with timestamp t2 goes to the user's session with
   the greatest last-chunk time L when t2 - L <= gap (signed: equality and any
   earlier t2 reuse it) and otherwise to the session named by t2's second;
   for timestamps added in non-decreasing order it shares the previous
   result's session iff t2 - t1 <= gap *)
C6_SessionGapSigned ==
    \A u \in Users : \A i \in 1..Len(add_log[u]) :
        LET e == add_log[u][i]
        IN /\ ~e.had_sessions => e.session_id = SessionId(u, e.timestamp)
           /\ e.had_sessions =>
                 e.session_id = IF e.timestamp - e.recent_last <= session_gap_threshold
                                THEN e.recent_id ELSE SessionId(u, e.timestamp)
           /\ (i > 1 /\ NonDecreasingUpTo(add_log[u], i)) =>
                 ((e.session_id = add_log[u][i - 1].session_id)
                     <=> (e.timestamp - add_log[u][i - 1].timestamp <= session_gap_threshold))

C6_Witness ==
    \E u \in Users : \E i \in 2..Len(add_log[u]) : \E k \in 2..Len(add_log[u]) :
        /\ add_log[u][i].timestamp - add_log[u][i - 1].timestamp = session_gap_threshold
        /\ add_log[u][i].session_id = add_log[u][i - 1].session_id
        /\ add_log[u][k].timestamp < add_log[u][k - 1].timestamp - session_gap_threshold
        /\ add_log[u][k].session_id = add_log[u][k - 1].session_id

(* C7: the results kept for a user appear in her sessions in upload order *)
C7_KeptOrder ==
    \A u \in Users :
        LET jobs == JobsOf(sessions[u])
        IN \A i \in 1..(Len(jobs) - 1) : jobs[i] < jobs[i + 1]

C7_Witness ==
    \E u \in Users :
        LET jobs == JobsOf(sessions[u])
        IN \E i \in 1..(Len(jobs) - 1) : \E k \in 1..Len(processed) :
              /\ processed[k].user_id = u
              /\ jobs[i] < processed[k].job /\ processed[k].job < jobs[i + 1]
              /\ processed[k].job \notin LoggedJobs

(* C8: each processed chunk with a four-class emotion has exactly one
   non-synthetic row in the speech table, exactly one recent-results entry,
   which records the outcome of the store write, and exactly one ChunkResult
   appended to the session tracker *)
C8_KeptChunkPersisted ==
    \A i \in 1..Len(processed) :
        processed[i].out.emotion \in FourClass =>
            /\ \E r \in RowsFor(processed[i].user_id, processed[i].timestamp) :
                   ~voice_emotion[r].is_synthetic
            /\ Cardinality({k \in 1..Len(recent_results) :
                               recent_results[k].job = processed[i].job}) = 1
            /\ \A k \in 1..Len(recent_results) :
                   recent_results[k].job = processed[i].job =>
                       "db_write_success" \in DOMAIN recent_results[k]
            /\ Cardinality({k \in 1..Len(add_log[processed[i].user_id]) :
                               add_log[processed[i].user_id][k].job = processed[i].job}) = 1

RECURSIVE TotalConf(_, _)
TotalConf(results, label) ==
    IF results = <<>> THEN 0
    ELSE (IF Head(results).emotion = label THEN Head(results).emotion_confidence ELSE 0)
            + TotalConf(Tail(results), label)

CountOf(results, label) == Cardinality({i \in 1..Len(results) : results[i].emotion = label})

LabelsOf(results) == {results[i].emotion : i \in 1..Len(results)}

(* C9: the emitted emotion is a label whose mean confidence is the greatest
   of the per-label means, and the emitted confidence is that mean *)
C9_AggregateArgmax ==
    call.done =>
        LET in == call.input
            e  == call.result.emotion
        IN /\ e \in LabelsOf(in)
           /\ call.result.emotion_confidence * CountOf(in, e) = TotalConf(in, e)
           /\ \A l \in LabelsOf(in) :
                  TotalConf(in, l) * CountOf(in, e) <= TotalConf(in, e) * CountOf(in, l)

C9_Witness ==
    /\ call.done
    /\ Cardinality(LabelsOf(call.input)) = 3
    /\ call.result.emotion # call.input[1].emotion
    /\ CountOf(call.input, call.result.emotion) = 1

ScenarioS4 ==
    <<ChunkResult(0, Output("Happy", Conf(60), "N/A", 0), 0),
      ChunkResult(0, Output("Happy", Conf(80), "N/A", 0), 0),
      ChunkResult(0, Output("Sad", Conf(95), "N/A", 0), 0)>>

(* C10, as stated: scenario S4 yields Happy with confidence 0.70 and chunk_count 3 *)
C10_ScenarioS4Happy ==
    (call.done /\ call.input = ScenarioS4) =>
        /\ call.result.emotion = "Happy"
        /\ call.result.emotion_confidence = Conf(70)
        /\ call.result.chunk_count = 3

(* C10, amended: scenario S4 yields Sad with confidence 0.95 (the greatest
   per-label mean; Happy's mean is 0.70) and chunk_count 3 *)
C10_ScenarioS4Sad ==
    (call.done /\ call.input = ScenarioS4) =>
        /\ call.result.emotion = "Sad"
        /\ call.result.emotion_confidence = Conf(95)
        /\ call.result.chunk_count = 3

C10_Witness == call.done /\ call.input = ScenarioS4

----------------------------------------------------------------------------
(* The ticks of the periodic loop *)

InTickWindow(timestamp, e) == e.window_start <= timestamp /\ timestamp <= e.window_end

CountIn(results, e) ==
    Cardinality({k \in 1..Len(results) : InTickWindow(results[k].timestamp, e)})

EmittedFor(e, user_id, session_id) ==
    {k \in 1..Len(e.emitted) :
        e.emitted[k].user_id = user_id /\ e.emitted[k].session_id = session_id}

RECURSIVE AllEmitted(_)
AllEmitted(log) ==
    IF log = <<>> THEN <<>> ELSE AllEmitted(SubSeq(log, 1, Len(log) - 1)) \o log[Len(log)].emitted

(* C11: a tick emits exactly one aggregate for each (user, session) that has a
   result with a timestamp in the window the tick hands to the tracker, with
   chunk_count the number of such results, none for any other pair, and every
   emitted aggregate is appended to the ring *)
C11_OneAggregatePerActivePair ==
    /\ \A t \in 1..Len(tick_log) :
           LET e == tick_log[t]
           IN /\ \A u \in Users : \A i \in 1..Len(e.sessions_before[u]) :
                     LET s == e.sessions_before[u][i]
                         n == CountIn(s.results, e)
                     IN /\ Cardinality(EmittedFor(e, u, s.id)) = IF n > 0 THEN 1 ELSE 0
                        /\ \A k \in EmittedFor(e, u, s.id) : e.emitted[k].chunk_count = n
              /\ \A k \in 1..Len(e.emitted) :
                     \E u \in Users : \E i \in 1..Len(e.sessions_before[u]) :
                         /\ e.emitted[k].user_id = u
                         /\ e.emitted[k].session_id = e.sessions_before[u][i].id
    /\ aggregated_results = AllEmitted(tick_log)

C11_Witness ==
    \E t \in 1..Len(tick_log) :
        LET e == tick_log[t]
        IN \E u \in Users, v \in Users :
              \E i \in 1..Len(e.sessions_before[u]) : \E j \in 1..Len(e.sessions_before[v]) :
                  /\ CountIn(e.sessions_before[u][i].results, e) > 0
                  /\ CountIn(e.sessions_before[u][i].results, e)
                        < Len(e.sessions_before[u][i].results)
                  /\ CountIn(e.sessions_before[v][j].results, e) = 0
                  /\ Len(aggregated_results) > 0

(* the value the last accepted set_interval call before tick e stored, the
   default when there was none *)
RECURSIVE LastAccepted(_, _)
LastAccepted(log, n) ==
    IF n = 0 THEN DEFAULT_INTERVAL
    ELSE IF log[n].manager = "aggregation" /\ log[n].status = 200 THEN log[n].value
    ELSE LastAccepted(log, n - 1)

(* C12: at every tick window_end is the time of the tick and window_start is
   window_end minus the registry value read at that tick, which is the value
   of the last accepted set_interval call; the tick's aggregates carry that window *)
C12_WindowFromRegistry ==
    \A t \in 1..Len(tick_log) :
        LET e == tick_log[t]
        IN /\ e.window_end = e.time
           /\ e.window_start = e.window_end - Secs(e.registry)
           /\ e.window_end - e.window_start = Secs(LastAccepted(interval_log, e.sets_seen))
           /\ \A k \in 1..Len(e.emitted) :
                  /\ e.emitted[k].window_start = e.window_start
                  /\ e.emitted[k].window_end = e.window_end

C12_Witness ==
    \E t \in 2..Len(tick_log) :
        /\ tick_log[t - 1].registry = DEFAULT_INTERVAL
        /\ tick_log[t].sets_seen > tick_log[t - 1].sets_seen
        /\ tick_log[t].registry = 120
        /\ tick_log[t].emitted # <<>>
        /\ tick_log[t].emitted[1].window_end - tick_log[t].emitted[1].window_start = Secs(120)

(* C13: when the interval is set from 300 to 120 after the tick at T, while
   the loop sleeps, the loop's next tick is at T + 120 s and its window
   starts 120 s before it *)
C13_NextTickAtNewInterval ==
    \A t \in 2..Len(tick_log) :
        LET e1 == tick_log[t - 1]
            e2 == tick_log[t]
        IN (/\ e1.thread = e2.thread
            /\ e1.registry = 300
            /\ e2.sets_seen > e1.sets_seen
            /\ e2.registry = 120)
           => /\ e2.time = e1.time + Secs(120)
              /\ e2.window_start = e2.time - Secs(120)

(* C14: after a tick with window end E and interval I the tracker holds no
   session whose last-chunk time is earlier than E - 2*I *)
C14_StaleSessionsDestroyed ==
    \A t \in 1..Len(tick_log) :
        LET e == tick_log[t]
        IN \A u \in Users : \A i \in 1..Len(e.metadata_after[u]) :
              ~(e.metadata_after[u][i].last_chunk_time < e.window_end - 2 * Secs(e.registry))

----------------------------------------------------------------------------
(* The synthetic generator *)

TablesOf == {TableOf(m) : m \in Range(Modalities)}

EnabledIn(e) == {m \in Range(Modalities) : e.states[m]}

NoInsert(e) == e.inserts = <<>> /\ e.rows_after = e.rows_before

OneInsertInto(e, m) ==
    /\ e.inserts = <<TableOf(m)>>
    /\ e.rows_after[TableOf(m)] \in {e.rows_before[TableOf(m)], e.rows_before[TableOf(m)] + 1}
    /\ \A t \in TablesOf \ {TableOf(m)} : e.rows_after[t] = e.rows_before[t]

(* C15: a generator tick makes no store insert when demo mode is off, none when demo
   mode is on and the three modalities are disabled, and exactly one, into that
   modality's table, when demo mode is on and exactly one modality is enabled *)
C15_DemoModeGating ==
    \A k \in 1..Len(gen_log) :
        LET e == gen_log[k]
        IN /\ ~e.demo => NoInsert(e)
           /\ (e.demo /\ EnabledIn(e) = {}) => NoInsert(e)
           /\ (e.demo /\ Cardinality(EnabledIn(e)) = 1) =>
                  \A m \in EnabledIn(e) : OneInsertInto(e, m)

C15_Witness ==
    \E k \in 1..Len(gen_log) :
        /\ gen_log[k].demo
        /\ EnabledIn(gen_log[k]) = {"fer"}
        /\ gen_log[k].rows_after["face_emotion"] = gen_log[k].rows_before["face_emotion"] + 1

(* C16: a generator tick leaves the chunk queue, the session tracker, the
   recent-results list and the aggregated ring unchanged, whatever the settings *)
C16_GeneratorBypassesPipeline ==
    [][gen_log' # gen_log =>
          UNCHANGED <<queue, queue_items, sessions, session_metadata, user_keys,
                      recent_results, aggregated_results>>]_vars

C16_Witness ==
    \E j, k \in 1..Len(gen_log) :
        /\ Len(gen_log[j].inserts) = 3
        /\ gen_log[j].queued > 0
        /\ Len(gen_log[k].inserts) = 3
        /\ gen_log[k].tracked > 0
        /\ gen_log[k].recent > 0
        /\ gen_log[k].aggregated > 0

SyntheticRows == Range(voice_emotion) \cup Range(face_emotion) \cup Range(bvs_emotion)

(* C17: every row the generator writes to the speech, face or vitals table carries
   the synthetic flag set (the worker writes no row, so every row of the three tables
   is a generator row) *)
C17_SyntheticFlagStored ==
    \A row \in SyntheticRows : "is_synthetic" \in DOMAIN row /\ row.is_synthetic

----------------------------------------------------------------------------
(* The interval registries *)

InRange(manager, value) ==
    IF manager = "aggregation"
    THEN MIN_INTERVAL <= value /\ value <= MAX_INTERVAL
    ELSE MIN_GENERATION_INTERVAL <= value /\ value <= MAX_GENERATION_INTERVAL

StoredNow(manager) == IF manager = "aggregation" THEN interval ELSE generation_interval

DefaultOf(manager) ==
    IF manager = "aggregation" THEN DEFAULT_INTERVAL ELSE DEFAULT_GENERATION_INTERVAL

(* the value a manager holds after the first n calls *)
RECURSIVE StoredAfter(_, _, _)
StoredAfter(log, n, manager) ==
    IF n = 0 THEN DefaultOf(manager)
    ELSE IF log[n].manager = manager THEN log[n].after
    ELSE StoredAfter(log, n - 1, manager)

(* C18: the aggregation interval stays within [60, 3600] and the generation interval
   within [5, 300], starting from 300 and 30; a call with a value outside the range
   is answered 400 and leaves the stored value unchanged; a value inside the range,
   the bounds included, is accepted and stored *)
C18_IntervalBounds ==
    /\ InRange("aggregation", interval)
    /\ InRange("generation", generation_interval)
    /\ \A manager \in {"aggregation", "generation"} :
           StoredNow(manager) = StoredAfter(interval_log, Len(interval_log), manager)
    /\ \A k \in 1..Len(interval_log) :
           LET e == interval_log[k]
           IN /\ e.before = StoredAfter(interval_log, k - 1, e.manager)
              /\ IF InRange(e.manager, e.value)
                 THEN e.status = 200 /\ e.after = e.value
                 ELSE e.status = 400 /\ e.after = e.before

C18_Witness ==
    /\ Len(interval_log) = 3
    /\ interval_log[1] = IntervalEntry("aggregation", MAX_INTERVAL, 200,
                                       DEFAULT_INTERVAL, MAX_INTERVAL)
    /\ interval_log[2] = IntervalEntry("aggregation", MAX_INTERVAL + 1, 400,
                                       MAX_INTERVAL, MAX_INTERVAL)
    /\ interval_log[3] = IntervalEntry("generation", MIN_GENERATION_INTERVAL, 200,
                                       DEFAULT_GENERATION_INTERVAL, MIN_GENERATION_INTERVAL)
    /\ interval = MAX_INTERVAL
    /\ generation_interval = MIN_GENERATION_INTERVAL

----------------------------------------------------------------------------
(* Starting and stopping *)

(* the loop threads that are alive and take jobs: inside _process_chunk, or in the
   loop with running set *)
Consumers ==
    {i \in 1..Len(worker_threads) :
        worker_threads[i].alive /\ (worker_threads[i].job # NoJob \/ running)}

(* C19: after any sequence of start_worker and stop_worker calls at most one worker
   loop thread is alive and consuming jobs from the chunk queue *)
C19_SingleConsumer == Cardinality(Consumers) <= 1

exceptLifecycleLog ==
    <<now, next_file, files, queue, queue_items, running, processing_item,
      recent_results, sessions, session_metadata, user_keys, voice_emotion,
      aggregated_results, aggregation_window, interval, responses, processed, add_log, call,
      worker_thread, worker_threads, aggregatorVars, registryVars, simulationVars, serviceVars>>

Stops == {"stop_worker", "stop_periodic_aggregation"}

Starts == {"start_worker", "start_periodic_aggregation"}

RunningFlag(op) == IF op \in {"start_worker", "stop_worker"} THEN running ELSE agg_running

(* C20: a stop called when its component is already stopped changes no state and joins
   nothing, and a start called while its component is running starts no second thread *)
C20_IdempotentStartStop ==
    [][lifecycle_log' # lifecycle_log =>
          LET e == lifecycle_log'[Len(lifecycle_log')]
          IN /\ e.was_running = RunningFlag(e.op)
             /\ ((e.op \in Stops /\ ~e.was_running) \/ (e.op \in Starts /\ e.was_running)) =>
                    /\ ~e.started
                    /\ ~e.joined
                    /\ UNCHANGED exceptLifecycleLog]_vars

C20_Witness ==
    \E k \in 1..(Len(lifecycle_log) - 1) :
        /\ lifecycle_log[k].op \in Stops
        /\ lifecycle_log[k].was_running
        /\ lifecycle_log[k].joined
        /\ lifecycle_log[k + 1].op = lifecycle_log[k].op
        /\ ~lifecycle_log[k + 1].was_running

----------------------------------------------------------------------------
(* Startup and shutdown *)

(* C21: when startup_event completes, the worker, the aggregator's periodic task and
   the generator task have been started, in that order, and all three are running *)
C21_StartupStartsAll ==
    \A k \in 1..Len(service_log) :
        service_log[k].event = "startup" =>
            /\ service_log[k].steps = <<"start_worker", "start_periodic_aggregation",
                                        "create_generator_task">>
            /\ service_log[k].worker_running
            /\ service_log[k].aggregator_running
            /\ service_log[k].generator = "running"

(* C22: shutdown_event cancels the generator task before it stops the worker, a
   failed step does not prevent the next one, and when it completes no temp file
   of an accepted job remains *)
C22_ShutdownLeavesNoTempFile ==
    \A k \in 1..Len(service_log) :
        LET e == service_log[k]
        IN e.event = "shutdown" =>
               /\ e.steps[Len(e.steps)] = "stop_worker"
               /\ e.generator # "running"
               /\ ~e.worker_running
               /\ e.files_left = {}

----------------------------------------------------------------------------
(* The input checks of the upload handler *)

ValidRequest(e) == e.user_id \in Users /\ EndsWith(e.filename, Wav)

(* C23: a request whose user id is not a UUID or whose file name does not end in
   .wav is answered 400 and creates no temp file and enqueues nothing; a 200 answer
   is given only for a job that the same request has put into the queue *)
C23_InvalidUploadRejected ==
    \A k \in 1..Len(requests) :
        LET e == requests[k]
        IN /\ ~ValidRequest(e) =>
                  /\ \E r \in e.answered : r.status = 400 /\ r.job = 0
                  /\ \A r \in e.answers : r.status = 400
                  /\ e.files_after = e.files_before
                  /\ e.queue_after = e.queue_before
                  /\ e.items_after = e.items_before
                  /\ e.path_after = e.path_before
           /\ \A r \in e.answers :
                  r.status = 200 =>
                      /\ ValidRequest(e)
                      /\ r.enqueued
                      /\ e.queue_after = Append(e.queue_before, e.queue_after[Len(e.queue_after)])
                      /\ e.queue_after[Len(e.queue_after)].path = r.job
                      /\ e.queue_after[Len(e.queue_after)].user_id = e.user_id

C23_Witness ==
    /\ Len(requests) = 2
    /\ requests[1].user_id = "u1"
    /\ requests[1].filename = <<"a", ".", "W", "A", "V">>
    /\ requests[1].queue_after = <<>>
    /\ requests[2].user_id = "u1"
    /\ requests[2].filename = <<"a", ".", "w", "a", "v">>
    /\ Len(requests[2].queue_after) = 1
    /\ \E r \in requests[2].answers : r.status = 200

----------------------------------------------------------------------------
(* SignalStorage *)

(* the signals written to modality m by the first n calls since the last
   clear_signals of m among them *)
RECURSIVE WrittenSince(_, _, _)
WrittenSince(log, n, m) ==
    IF n = 0 THEN <<>>
    ELSE IF ~log[n].ok \/ Lower(log[n].modality) # m THEN WrittenSince(log, n - 1, m)
    ELSE IF log[n].op = "clear_signals" THEN <<>>
    ELSE Append(WrittenSince(log, n - 1, m), log[n].signal)

(* C24: for each modality get_signal_count equals the number of write_signal calls
   for it since its last clear_signals, and the file holds exactly those signals, so
   clear_signals of one modality makes its count 0 and leaves the other two alone *)
C24_SignalCount ==
    \A m \in {"ser", "fer", "vitals"} :
        LET written == WrittenSince(storage_log, Len(storage_log), m)
        IN /\ get_signal_count(m) = Len(written)
           /\ signals[m] = [k \in 1..Len(written) |-> SignalLine(written[k])]

C24_Witness ==
    /\ Len(storage_log) = 4
    /\ storage_log[1].op = "write_signal" /\ storage_log[1].modality = "ser"
    /\ storage_log[2].op = "write_signal" /\ storage_log[2].modality = "fer"
    /\ storage_log[3].op = "clear_signals" /\ storage_log[3].modality = "ser"
    /\ storage_log[4].op = "write_signal" /\ storage_log[4].modality = "SER"
    /\ get_signal_count("ser") = 1
    /\ get_signal_count("fer") = 1
    /\ get_signal_count("vitals") = 0

----------------------------------------------------------------------------
(* The result rings *)

ResultsProduced == Len(SelectSeq(processed, LAMBDA d : HasResult(d.out)))

Min(a, b) == IF a <= b THEN a ELSE b

(* C25: the aggregated ring never holds more than 1000 entries, and the chunk-result
   ring fed by the worker retains the 500 most recent results (all of them while
   fewer than 500 were produced) *)
C25_RingsRetain ==
    /\ Len(aggregated_results) <= 1000
    /\ Len(recent_results) >= Min(500, ResultsProduced)

----------------------------------------------------------------------------
(* Pipeline failures *)

Queued(path) == \E k \in 1..Len(queue) : queue[k].path = path

Processed(path) == \E i \in 1..Len(processed) : processed[i].job = path

PipelineRaised == \E i \in 1..Len(processed) : processed[i].out.raised

NoTraceOfRaised ==
    \A i \in 1..Len(processed) :
        processed[i].out.raised =>
            /\ processed[i].job \notin TrackedJobs \cup LoggedJobs
            /\ processed[i].job \notin RecentJobs
            /\ RowsFor(processed[i].user_id, processed[i].timestamp) = {}
            /\ \E t \in 1..Len(worker_threads) : worker_threads[t].alive

(* C26: a chunk whose pipeline raised leaves no session entry, no recent-result entry
   and no store row, the worker loop stays alive, and a job that is queued after a
   failure is eventually dequeued and processed *)
C26_WorkerSurvivesFailure ==
    /\ []NoTraceOfRaised
    /\ \A path \in 1..MaxFairUploads :
           (PipelineRaised /\ Queued(path)) ~> Processed(path)

C26_Witness ==
    \E i \in 1..Len(processed) : \E j \in (i + 1)..Len(processed) :
        /\ processed[i].out.raised
        /\ HasResult(processed[j].out)
        /\ processed[j].job \in TrackedJobs
        /\ processed[i].job \notin TrackedJobs

----------------------------------------------------------------------------
(* At-most-once processing *)

Holders(path) ==
    {t \in 1..Len(worker_threads) :
        worker_threads[t].job # NoJob /\ worker_threads[t].job.path = path}

Runs(path) == {i \in 1..Len(processed) : processed[i].job = path}

(* C27: every accepted job is passed to the pipeline at most once, whatever the
   interleaving of uploads, loop threads and start_worker/stop_worker calls: a job is
   in the queue, or held by one loop thread, or processed once, never two of these *)
C27_AtMostOnce ==
    \A path \in 1..(next_file - 1) :
        Cardinality({k \in 1..Len(queue) : queue[k].path = path})
            + Cardinality(Holders(path)) + Cardinality(Runs(path)) <= 1

C27_Witness ==
    /\ Len(worker_threads) >= 2
    /\ worker_threads[1].alive /\ worker_threads[1].job # NoJob
    /\ worker_threads[2].alive /\ worker_threads[2].job # NoJob
    /\ worker_threads[1].job.path # worker_threads[2].job.path

----------------------------------------------------------------------------
(* Last-chunk time *)

Max(a, b) == IF a >= b THEN a ELSE b

LastAdd(u) == add_log[u][Len(add_log[u])]

(* C28: after add_result appended a result with timestamp t to the session whose
   last-chunk time was L, that session's last-chunk time is max(L, t) *)
C28_LastChunkTimeIsMax ==
    \A u \in Users :
        (Len(add_log[u]) > 0 /\ LastAdd(u).had_sessions
            /\ LastAdd(u).session_id = LastAdd(u).recent_id) =>
        LET e == LastAdd(u)
            k == IndexOfId(session_metadata[u], e.session_id)
        IN session_metadata[u][k].last_chunk_time = Max(e.recent_last, e.timestamp)

----------------------------------------------------------------------------
(* Separation of a user's sessions *)

(* session j follows session i directly in the order of start times *)
NextByStart(meta, i, j) ==
    /\ meta[i].start_time < meta[j].start_time
    /\ ~\E k \in 1..Len(meta) :
          meta[i].start_time < meta[k].start_time /\ meta[k].start_time < meta[j].start_time

(* C29: for every user, the sessions ordered by start time are separated by more than
   the gap threshold: each session's start time exceeds the previous session's
   last-chunk time by more than session_gap_threshold *)
C29_SessionsSeparated ==
    \A u \in Users :
        \A i \in 1..Len(session_metadata[u]) : \A j \in 1..Len(session_metadata[u]) :
            NextByStart(session_metadata[u], i, j) =>
                session_metadata[u][j].start_time - session_metadata[u][i].last_chunk_time
                    > session_gap_threshold

----------------------------------------------------------------------------
(* The ends of the aggregation window *)

InHalfOpenWindow(timestamp, e) == e.window_start < timestamp /\ timestamp <= e.window_end

CountInHalfOpen(results, e) ==
    Cardinality({k \in 1..Len(results) : InHalfOpenWindow(results[k].timestamp, e)})

(* C30: the window of a tick is half-open (window_start, window_end]: a result whose
   timestamp equals window_start is not counted in that tick and one whose timestamp
   equals window_end is, so each session's aggregate counts exactly the results r
   with window_start < r.timestamp <= window_end *)
C30_WindowHalfOpen ==
    \A t \in 1..Len(tick_log) :
        LET e == tick_log[t]
        IN \A u \in Users : \A i \in 1..Len(e.sessions_before[u]) :
               LET s == e.sessions_before[u][i]
                   n == CountInHalfOpen(s.results, e)
               IN /\ Cardinality(EmittedFor(e, u, s.id)) = IF n > 0 THEN 1 ELSE 0
                  /\ \A k \in EmittedFor(e, u, s.id) : e.emitted[k].chunk_count = n

----------------------------------------------------------------------------
(* Cleanup of old sessions *)

IdsOf(seq) == {seq[i].id : i \in 1..Len(seq)}

(* C31: cleanup_old_sessions(user, cutoff) removes exactly the sessions of that user
   whose last-chunk time is strictly less than cutoff, result list and metadata
   together; a session whose last chunk is at cutoff survives, and every other session
   of the user and all sessions of other users stay as they were *)
C31_CleanupExact ==
    \A n \in 1..Len(tracker_log) :
        LET e == tracker_log[n]
            u == e.user_id
        IN e.op = "cleanup_old_sessions" =>
            /\ \A v \in Users \ {u} :
                   /\ e.sessions_after[v] = e.sessions_before[v]
                   /\ e.metadata_after[v] = e.metadata_before[v]
            /\ \A i \in 1..Len(e.metadata_before[u]) :
                   LET m == e.metadata_before[u][i]
                   IN IF m.last_chunk_time < e.before_timestamp
                      THEN /\ m.id \notin IdsOf(e.sessions_after[u])
                           /\ m.id \notin IdsOf(e.metadata_after[u])
                      ELSE /\ m \in Range(e.metadata_after[u])
                           /\ \A s \in Range(e.sessions_before[u]) :
                                  s.id = m.id => s \in Range(e.sessions_after[u])
            /\ Range(e.sessions_after[u]) \subseteq Range(e.sessions_before[u])
            /\ Range(e.metadata_after[u]) \subseteq Range(e.metadata_before[u])
            /\ Len(e.sessions_after[u]) = Cardinality(IdsOf(e.sessions_after[u]))
            /\ Len(e.metadata_after[u]) = Cardinality(IdsOf(e.metadata_after[u]))

C31_Witness ==
    \E n \in 1..Len(tracker_log) :
        LET e == tracker_log[n]
            u == e.user_id
        IN /\ e.op = "cleanup_old_sessions"
           /\ \E i \in 1..Len(e.metadata_before[u]) :
                  /\ e.metadata_before[u][i].last_chunk_time < e.before_timestamp
                  /\ e.metadata_before[u][i].id \notin IdsOf(e.metadata_after[u])
           /\ \E i \in 1..Len(e.metadata_before[u]) :
                  /\ e.metadata_before[u][i].last_chunk_time = e.before_timestamp
                  /\ e.metadata_before[u][i].id \in IdsOf(e.sessions_after[u])
           /\ \E v \in Users \ {u} : e.sessions_after[v] # <<>>

----------------------------------------------------------------------------
(* Ticks after a stop *)

(* C32: after stop_periodic_aggregation the loop that was running at that moment
   starts no further tick, also when start_periodic_aggregation is called again
   before it wakes: the only loop that ticks is the one started by the last start
   call that no stop call followed, which is the thread timer_thread names *)
C32_NoTickAfterStop ==
    [][tick_log' # tick_log => tick_log'[Len(tick_log')].thread = timer_thread]_vars

----------------------------------------------------------------------------
(* Emotion bias *)

(* C33: set_bias accepts only a modality naming ser, fer or vitals (the name is
   lower-cased first) and an emotion in {Happy, Sad, Fear, Angry} or none; any other
   argument is answered 400 and leaves the three biases unchanged; a successful set
   changes only the named modality's bias; so every stored bias is one of the four
   labels or none *)
C33_BiasValidated ==
    /\ \A m \in {"ser", "fer", "vitals"} :
           biases[m] \in {"Happy", "Sad", "Fear", "Angry", None}
    /\ \A n \in 1..Len(bias_log) :
           LET e == bias_log[n]
               named == Lower(e.modality)
               valid == /\ named \in {"ser", "fer", "vitals"}
                        /\ e.emotion \in {"Happy", "Sad", "Fear", "Angry", None}
           IN IF valid
              THEN /\ e.status = 200
                   /\ e.after[named] = e.emotion
                   /\ \A m \in {"ser", "fer", "vitals"} \ {named} : e.after[m] = e.before[m]
              ELSE /\ e.status = 400
                   /\ e.after = e.before

C33_Witness ==
    /\ Len(bias_log) = 2
    /\ bias_log[1].status = 200 /\ bias_log[1].modality = "fer" /\ bias_log[1].emotion = "Sad"
    /\ bias_log[2].status = 400 /\ bias_log[2].modality = "fer"
    /\ bias_log[2].emotion = "Neutral"
    /\ biases["fer"] = "Sad"

----------------------------------------------------------------------------
(* Consistency of the two maps of the session tracker *)

(* C34: for every user the session ids of _sessions are the session ids of
   _session_metadata, every stored session holds at least one ChunkResult, and its
   start_time is the timestamp of the first result appended to it *)
C34_TrackerMapsAgree ==
    \A u \in Users :
        /\ IdsOf(sessions[u]) = IdsOf(session_metadata[u])
        /\ Len(sessions[u]) = Cardinality(IdsOf(sessions[u]))
        /\ Len(session_metadata[u]) = Cardinality(IdsOf(session_metadata[u]))
        /\ \A i \in 1..Len(sessions[u]) : \A k \in 1..Len(session_metadata[u]) :
               sessions[u][i].id = session_metadata[u][k].id =>
                   /\ sessions[u][i].results # <<>>
                   /\ session_metadata[u][k].start_time = sessions[u][i].results[1].timestamp

C34_Witness ==
    \E n \in 1..Len(tracker_log) :
        LET e == tracker_log[n]
        IN /\ e.op = "cleanup_old_sessions"
           /\ Len(e.sessions_after[e.user_id]) < Len(e.sessions_before[e.user_id])
           /\ \E i \in 1..Len(sessions[e.user_id]) : Len(sessions[e.user_id][i].results) >= 2

----------------------------------------------------------------------------
(* Fresh ids for new sessions *)

(* the add_result call i of user u found the gap above the threshold *)
OpensNewSession(u, i) ==
    /\ add_log[u][i].had_sessions
    /\ add_log[u][i].timestamp - add_log[u][i].recent_last > session_gap_threshold

(* C35: whenever _detect_or_create_session decides to open a new session, the id it
   returns is not yet a session id of that user, so the result is never appended to
   an existing session *)
C35_NewSessionIdIsFresh ==
    \A u \in Users : \A i \in 1..Len(add_log[u]) :
        OpensNewSession(u, i) =>
            add_log[u][i].session_id \notin {add_log[u][k].session_id : k \in 1..(i - 1)}

----------------------------------------------------------------------------
(* The windows of consecutive ticks *)

SessionsAt(e, u) == 1..Len(e.sessions_before[u])

(* the results (named by their job) that tick e counted in an aggregate *)
CountedBy(e) ==
    UNION {UNION {{e.sessions_before[u][i].results[k].job :
                      k \in {j \in 1..Len(e.sessions_before[u][i].results) :
                               InTickWindow(e.sessions_before[u][i].results[j].timestamp, e)}} :
                  i \in SessionsAt(e, u)} : u \in Users}

(* C36: across the ticks of one run of the periodic loop no ChunkResult is counted
   in more than one aggregate: the windows of its ticks never overlap *)
C36_CountedOnce ==
    \A a \in 1..Len(tick_log) : \A b \in 1..Len(tick_log) :
        (a < b /\ tick_log[a].thread = tick_log[b].thread) =>
            CountedBy(tick_log[a]) \cap CountedBy(tick_log[b]) = {}

(* tick b is the tick of the same loop that follows tick a *)
NextTickOf(a, b) ==
    /\ a < b
    /\ tick_log[a].thread = tick_log[b].thread
    /\ \A c \in (a + 1)..(b - 1) : tick_log[c].thread # tick_log[a].thread

AddedBetween(a, b) ==
    UNION {UNION {{tick_log[b].sessions_before[u][i].results[k].job :
                      k \in {j \in 1..Len(tick_log[b].sessions_before[u][i].results) :
                               LET ts == tick_log[b].sessions_before[u][i].results[j].timestamp
                               IN tick_log[a].window_end < ts /\ ts <= tick_log[b].window_end}} :
                  i \in SessionsAt(tick_log[b], u)} : u \in Users}

(* C37: consecutive windows of a running loop leave no gap: each tick's window_start
   is not later than the previous tick's window_end, so every ChunkResult appended
   between two ticks is counted by the later one *)
C37_NoGapBetweenWindows ==
    \A a \in 1..Len(tick_log) : \A b \in 1..Len(tick_log) :
        NextTickOf(a, b) =>
            /\ tick_log[b].window_start <= tick_log[a].window_end
            /\ AddedBetween(a, b) \subseteq CountedBy(tick_log[b])

----------------------------------------------------------------------------
(* The dashboard tracking list *)

(* the jobs a loop thread has taken from the queue *)
Dequeued ==
    {worker_threads[i].job : i \in {t \in 1..Len(worker_threads) : worker_threads[t].job # NoJob}}
        \cup {Job(processed[i].user_id, processed[i].job, processed[i].timestamp) :
                 i \in 1..Len(processed)}

(* C38: under any interleaving of enqueue_chunk with the worker loop, the tracking
   list holds no entry for a job the worker has dequeued, and whenever no enqueue_chunk
   call is in progress its entries correspond one-to-one to the jobs waiting in the
   queue *)
C38_TrackingMatchesQueue ==
    /\ \A job \in Dequeued : QueueItem(job) \notin Range(queue_items)
    /\ enqueuing = NoJob =>
           /\ Len(queue_items) = Len(queue)
           /\ \A k \in 1..Len(queue) : queue_items[k] = QueueItem(queue[k])

----------------------------------------------------------------------------
(* What a predict call removes *)

(* C39: a predict call with clear=true removes from its modality's storage only
   signals that it returned: signals of other users and signals outside the window
   stay stored; with clear=false or with no matching signal the storage is unchanged;
   other modalities are never touched *)
C39_PredictClearsOnlyReturned ==
    \A n \in 1..Len(predict_log) :
        LET e == predict_log[n]
        IN /\ \A m \in {"ser", "fer", "vitals"} \ {e.modality} : e.after[m] = e.before[m]
           /\ (~e.clear \/ e.returned = <<>>) => e.after = e.before
           /\ \A k \in 1..Len(e.before[e.modality]) :
                  e.before[e.modality][k][1] \notin Range(e.returned) =>
                      e.before[e.modality][k] \in Range(e.after[e.modality])

----------------------------------------------------------------------------
(* Initialisation of a registry singleton *)

EventsOf(op) == {n \in 1..Len(singleton_log) : singleton_log[n].op = op}

(* C40: a registry singleton is initialised exactly once: every thread of a
   concurrent first get_instance obtains the instance, __init__ assigns the default
   and the lock at most once, and neither assignment happens after a setter stored a
   value *)
C40_InitialisedOnce ==
    /\ \A t \in 1..MaxCallers : callers[t] # "raised"
    /\ Cardinality(EventsOf("init_value")) <= 1
    /\ Cardinality(EventsOf("init_lock")) <= 1
    /\ \A a \in EventsOf("set") : \A b \in EventsOf("init_value") \cup EventsOf("init_lock") :
           b < a

====
